---- MODULE Spec2Model ----
(***************************************************************************)
(* A model of claweb's exploration engine (SiteExplorer), its memory      *)
(* store, the memory-based planner and the agent's task executor loop.    *)
(* The browser, the tagger and the vision/language model are the          *)
(* environment: every value they return is a nondeterministic choice.     *)
(***************************************************************************)
EXTENDS Integers, Sequences, FiniteSets, TLC

VARIABLES
    pc,             \* position of explore_site: "init", "collecting", "exploring", "done"
    cur_url,        \* browser_manager.page.url
    visited_urls,   \* SiteExplorer.visited_urls
    visited_items,  \* SiteExplorer.visited_items
    pending_items,  \* SiteExplorer.pending_items
    explored_count, \* local of _explore_all_items
    item,           \* local of _explore_all_items: the item popped, NoItem at the loop head
    sites,          \* table sites (row id = index)
    pages,          \* table pages
    elements,       \* table elements
    actions,        \* table actions
    logs,           \* table exploration_logs
    clicks,         \* history: item keys whose activation was attempted, in order
    iter_trace,     \* history: what the current drain-loop iteration has done so far, in order
    activated,      \* history: number of activations whose click succeeded
    click_failed,   \* history: some activation failed
    first_resp,     \* history: the element list the model returned for the start page
    post_promoted,  \* history: items promoted by post-activation analyses
    last_pass,      \* history: the last collection pass, for the collection rule
    life,           \* WebAgent: "new" (constructed), "started", "stopped"
    use_memory,     \* WebAgent._use_memory
    db_open,        \* WebAgent.db is set
    planner_set,    \* WebAgent.planner is set
    current_site,   \* WebAgent.current_site: a site id, 0 for None
    running,        \* WebAgent._running
    a_pc,           \* position of execute_task: "idle", "select", "planning", "plan", "live"
    plan,           \* local of execute_task: the plan, NoPlan for None
    step_idx,       \* _execute_with_plan: index of the next plan step
    step,           \* _execute_without_memory: step
    action_history, \* _execute_without_memory: action_history
    task_paths,     \* table task_paths
    result,         \* what the last execute_task returned (or that it raised)
    tasks_run,      \* execute_task calls so far
    plan_call,      \* plan_task: what its model call produced, NoCall outside plan_task
    sel,            \* history: the executor chosen for the task and what it was chosen on
    plan_cmds,      \* history: the model's command for each plan step asked so far
    executed_plan,  \* history: indices of the plan steps handed to the executor
    paths_at_entry, \* history: number of task_paths rows when the task began
    fn_call,        \* the operation called on its own (executor, store), with its arguments
    fn_ret,         \* what that call returned
    store_fail,     \* history: a store write failed in the running task or exploration
    interrupted,    \* an interruption of the exploration was requested
    mysql_db        \* the tables of a MySQLDatabase run beside the SQLiteDatabase

explVars == <<pc, cur_url, visited_urls, visited_items, pending_items, explored_count, item>>
dbVars == <<sites, pages, elements, actions, logs>>
histVars == <<clicks, click_failed, first_resp, post_promoted, last_pass, iter_trace, activated>>
agentVars == <<life, use_memory, db_open, planner_set, current_site, running, a_pc,
               plan, step_idx, step, action_history, task_paths, result, tasks_run,
               plan_call, sel, plan_cmds, executed_plan, paths_at_entry>>
auxVars == <<fn_call, fn_ret, store_fail, interrupted, mysql_db>>
vars == <<explVars, dbVars, histVars, agentVars, auxVars>>

\* no operation called on its own yet, no failure, no interruption
NoFn == [op |-> "none"]
AuxInit ==
    /\ fn_call = NoFn
    /\ fn_ret = NoFn
    /\ store_fail = FALSE
    /\ interrupted = FALSE
    /\ mysql_db = [sites |-> <<>>, pages |-> <<>>, elements |-> <<>>, actions |-> <<>>,
                   task_paths |-> <<>>, logs |-> <<>>]

----------------------------------------------------------------------------
(* Bounds of the model *)

\* config.exploration.max_pages (EXPLORE_MAX_PAGES); the item budget is 3 times it
MaxPages == 1
\* longest element list the model returns for one page during an exploration
MaxElems == 2
\* Element rows a site yields in one exploration (bounds the queue)
MaxElemRows == 4
\* longest element list of the stand-alone collection pass
MaxCollectLen == 4

----------------------------------------------------------------------------
(* URLs and their normalisation *)

Url(p, q, f) == [path |-> p, query |-> q, frag |-> f]
StartUrl == Url("/", "", "")
\* where an activation can leave the browser: the start page reloaded with a
\* query string, or the start page at the anchor an <a href="#modal"> jumps to
ClickUrls == {Url("/", "t=1", ""), Url("/", "", "modal")}
Urls == {StartUrl} \cup ClickUrls

\* scheme://netloc/path, "#fragment" kept, query string dropped; the text is
\* a sequence of pieces, the path and then "#" with the fragment
NormalizeUrl(u) == <<u.path>> \o (IF u.frag # "" THEN <<"#" \o u.frag>> ELSE <<>>)

----------------------------------------------------------------------------
(* What the model reports about a page *)

\* dict.get(key, default)
Get(d, k, default) == IF k \in DOMAIN d THEN d[k] ELSE default

\* the values of the PageType enum
PageTypes ==
    {"login", "home", "list", "detail", "form", "search", "settings", "error", "auth",
     "dashboard", "unknown"}

\* url_key + ("#modal" if has_modal else "")
UrlPattern(url_key, has_modal) ==
    url_key \o (IF has_modal THEN <<"#modal">> ELSE <<>>)

\* what analyze_page returns when it has parsed nothing
DefaultPageInfo ==
    [page_type |-> "unknown", page_description |-> "unanalyzable", key_features |-> <<>>,
     has_sidebar_nav |-> FALSE, sidebar_nav_items |-> <<>>, important_elements |-> <<>>,
     suggested_explorations |-> <<>>]

\* a classification the model gives of a page it understands
ListPageInfo ==
    [page_type |-> "list", page_description |-> "a list", key_features |-> <<"table">>]

\* PageType(page_type_str) if page_type_str is a value of the enum, else UNKNOWN
PageTypeOf(page_info) ==
    IF Get(page_info, "page_type", "unknown") \in PageTypes
    THEN Get(page_info, "page_type", "unknown")
    ELSE "unknown"

----------------------------------------------------------------------------
(* What the model reports about one tagged element *)

TagInt(n) == [kind |-> "int", n |-> n]
TagStr(n) == [kind |-> "str", n |-> n]
TagNone == [kind |-> "none", n |-> 0]
\* keys of the tagger's tag_to_xpath map (integers)
MappedTags == {1, 2, 3, 4}

Elem(nm, nav, crud, ct, p, tg) ==
    [semantic_name |-> nm, is_nav_menu |-> nav, is_crud_action |-> crud,
     crud_type |-> ct, explore_priority |-> p, tag_id |-> tg]

EReports == Elem("Reports", TRUE, FALSE, "none", 1, TagInt(1))
ENewTask == Elem("New Task", FALSE, TRUE, "create", 2, TagInt(2))
ERemove == Elem("Remove", FALSE, TRUE, "delete", 9, TagInt(3))
EExport == Elem("Export", FALSE, FALSE, "none", 8, TagInt(4))
EHelp == Elem("Help", FALSE, FALSE, "none", 5, TagInt(1))
EGhost == Elem("Ghost", TRUE, FALSE, "none", 9, TagInt(9))
EEdit == Elem("Edit", FALSE, TRUE, "update", 6, TagStr(2))
EUntagged == Elem("Logo", TRUE, FALSE, "none", 10, TagNone)

\* the elements the start page of an explored site can show
SiteElems == {EReports, ENewTask, EEdit}
\* the elements a page or dialog reached by an activation can show
PostElems == {EReports, EEdit}
\* the elements of the stand-alone collection pass
AllElems == {EReports, ENewTask, ERemove, EExport, EHelp, EGhost, EEdit, EUntagged}

RECURSIVE SeqsUpTo(_, _)
SeqsUpTo(S, n) ==
    IF n = 0 THEN {<<>>}
    ELSE LET shorter == SeqsUpTo(S, n - 1)
         IN shorter \cup {Append(s, e) : s \in {t \in shorter : Len(t) = n - 1}, e \in S}

----------------------------------------------------------------------------
(* The store *)

SiteDomain == "site.test"
SessionId == "s1"
\* the session_id of an earlier exploration, by another SiteExplorer
EarlierSessionId == "s0"

\* get_or_create_site: the row with this domain, or a new one
SiteIdOf(tbl, domain) ==
    IF \E i \in 1..Len(tbl) : tbl[i].domain = domain
    THEN CHOOSE i \in 1..Len(tbl) : tbl[i].domain = domain
    ELSE Len(tbl) + 1
\* a site lookup that inserts without looking
GetOrCreateSiteBlind(tbl, domain) == Append(tbl, [domain |-> domain])

GetOrCreateSite(tbl, domain) ==
    IF \E i \in 1..Len(tbl) : tbl[i].domain = domain
    THEN tbl
    ELSE Append(tbl, [domain |-> domain])

\* save_page, save_element, save_action, save_exploration_log with id unset:
\* INSERT, the new row's id is lastrowid
SaveNew(tbl, row) == Append(tbl, row)
NewId(tbl) == Len(tbl) + 1

----------------------------------------------------------------------------
(* Collection *)

ItemKey(page_id, name) == <<page_id, name>>
KeyOfItem(it) == ItemKey(it.source_page_id, it.name)

\* tag_to_xpath.get(tag_id) or .get(str(tag_id)) or .get(int(tag_id)):
\* the tagger's keys are integers, a tag id given as a string is converted
ResolveInitial(tag) ==
    IF tag.kind \in {"int", "str"} /\ tag.n \in MappedTags THEN tag.n ELSE 0

\* tag_to_xpath.get(tag_id): only a tag id that is a key as it stands
ResolvePost(tag) ==
    IF tag.kind = "int" /\ tag.n \in MappedTags THEN tag.n ELSE 0

ItemType(e) == IF e.is_crud_action THEN "crud"
               ELSE IF e.is_nav_menu THEN "nav" ELSE "action"

ShouldExplore(e, xpath, key, visited) ==
    /\ (e.is_nav_menu \/ e.is_crud_action \/ e.explore_priority >= 7)
    /\ xpath # 0
    /\ key \notin visited

\* an item built before its Element was saved: the Element has no id yet
MakeItemUnsaved(e, xpath, element_id, page_id, url) ==
    [name |-> e.semantic_name, xpath |-> xpath, priority |-> e.explore_priority,
     element_id |-> 0, source_page_id |-> page_id, source_url |-> url,
     item_type |-> ItemType(e), crud_type |-> e.crud_type]

\* the pending item of an element: element_id is the id save_element gave
MakeItem(e, xpath, element_id, page_id, url) ==
    [name |-> e.semantic_name, xpath |-> xpath, priority |-> e.explore_priority,
     element_id |-> element_id, source_page_id |-> page_id, source_url |-> url,
     item_type |-> ItemType(e), crud_type |-> e.crud_type]

ElementRow(e, page_id, xpath) ==
    [page_id |-> page_id, semantic_name |-> e.semantic_name, css_selector_hint |-> xpath]

\* a sort key that looks at the raw priority alone
CollectSortKeyRaw(x) == x.priority

\* the sort key of the collection pass
CollectSortKey(x) ==
    IF x.item_type = "nav" THEN 10
    ELSE IF x.crud_type = "create" THEN 9
    ELSE IF x.crud_type \in {"read", "update"} THEN 8
    ELSE IF x.crud_type = "delete" THEN 7
    ELSE x.priority

\* the sort key of the post-activation pass
PostSortKey(x) == x.priority

\* list.sort(key=..., reverse=True): descending, equal keys keep their order
StableSortDesc(s, k) ==
    LET n == Len(s)
        pos(i) == 1 + Cardinality({j \in 1..n :
                      k[j] > k[i] \/ (k[j] = k[i] /\ j < i)})
    IN [p \in 1..n |-> s[CHOOSE i \in 1..n : pos(i) = p]]

\* pending_items.sort(key=<kind rank or priority>, reverse=True)
CollectSorted(s) == StableSortDesc(s, [i \in 1..Len(s) |-> CollectSortKey(s[i])])

\* pending_items.sort(key=lambda x: x["priority"], reverse=True)
PostSorted(s) == StableSortDesc(s, [i \in 1..Len(s) |-> PostSortKey(s[i])])

\* a save that keeps one Element row per page and semantic name
SaveElementOnce(elems, row) ==
    IF \E i \in 1..Len(elems) :
          elems[i].page_id = row.page_id /\ elems[i].semantic_name = row.semantic_name
    THEN elems
    ELSE SaveNew(elems, row)

\* element = self.db.save_element(element) on an Element built without an id
SaveElement(elems, row) == SaveNew(elems, row)

\* the element loop of _analyze_and_collect_items
RECURSIVE CollectLoop(_, _, _, _, _, _)
CollectLoop(resp, page_id, url, elems, pend, visited) ==
    IF resp = <<>> THEN [elements |-> elems, pending |-> pend]
    ELSE LET e == Head(resp)
             xpath == ResolveInitial(e.tag_id)
             elems2 == SaveElement(elems, ElementRow(e, page_id, xpath))
             key == ItemKey(page_id, e.semantic_name)
             pend2 == IF ShouldExplore(e, xpath, key, visited)
                      THEN Append(pend, MakeItem(e, xpath, NewId(elems), page_id, url))
                      ELSE pend
         IN IF e.tag_id.kind = "none"
            THEN CollectLoop(Tail(resp), page_id, url, elems, pend, visited)
            ELSE CollectLoop(Tail(resp), page_id, url, elems2, pend2, visited)

\* the element loop of _analyze_after_click
RECURSIVE PostLoop(_, _, _, _, _, _, _)
PostLoop(resp, page_id, url, elems, pend, visited, new_items) ==
    IF resp = <<>> THEN [elements |-> elems, pending |-> pend, new_items |-> new_items]
    ELSE LET e == Head(resp)
             xpath == ResolvePost(e.tag_id)
             elems2 == SaveElement(elems, ElementRow(e, page_id, xpath))
             key == ItemKey(page_id, e.semantic_name)
             existing == \E i \in 1..Len(pend) :
                            /\ pend[i].name = e.semantic_name
                            /\ pend[i].source_page_id = page_id
             add == ShouldExplore(e, xpath, key, visited) /\ ~existing
             pend2 == IF add
                      THEN Append(pend, MakeItem(e, xpath, NewId(elems), page_id, url))
                      ELSE pend
         IN IF e.tag_id.kind = "none"
            THEN PostLoop(Tail(resp), page_id, url, elems, pend, visited, new_items)
            ELSE PostLoop(Tail(resp), page_id, url, elems2, pend2, visited,
                          IF add THEN new_items + 1 ELSE new_items)

PageRow(site_id, url_key, has_modal, url, page_info) ==
    [site_id |-> site_id, url_pattern |-> UrlPattern(url_key, has_modal),
     page_type |-> PageTypeOf(page_info),
     semantic_description |-> Get(page_info, "page_description", ""),
     key_features |-> Get(page_info, "key_features", <<>>),
     sample_url |-> url, visit_count |-> 1]

----------------------------------------------------------------------------
(* explore_site *)

NoItem == [name |-> "none"]
NoPass == [kind |-> "none"]

ExplorerInit ==
    /\ pc = "init"
    /\ cur_url = StartUrl
    /\ visited_urls = {}
    /\ visited_items = {}
    /\ pending_items = <<>>
    /\ explored_count = 0
    /\ item = NoItem
    /\ sites = <<>>
    /\ pages = <<>>
    /\ elements = <<>>
    /\ actions = <<>>
    /\ logs = <<>>
    /\ clicks = <<>>
    /\ click_failed = FALSE
    /\ first_resp = <<>>
    /\ post_promoted = 0
    /\ last_pass = NoPass
    /\ iter_trace = <<>>
    /\ activated = 0

\* explore_site up to the first analysis: the site row, the start page loaded
ExploreSiteStart ==
    /\ pc = "init"
    /\ sites' = GetOrCreateSite(sites, SiteDomain)
    /\ cur_url' = StartUrl
    /\ pc' = "collecting"
    /\ UNCHANGED <<visited_urls, visited_items, pending_items, explored_count, item>>
    /\ UNCHANGED <<pages, elements, actions, logs>>
    /\ UNCHANGED histVars
    /\ UNCHANGED <<agentVars, auxVars>>

\* _analyze_and_collect_items on the model's element list resp
AnalyzeAndCollectItems(resp, page_info) ==
    LET url_key == NormalizeUrl(cur_url)
        site_id == SiteIdOf(sites, SiteDomain)
        page_id == NewId(pages)
        r == CollectLoop(resp, page_id, cur_url, elements, pending_items, visited_items)
    IN /\ pc = "collecting"
       /\ visited_urls' = visited_urls \cup {url_key}
       /\ pages' = SaveNew(pages, PageRow(site_id, url_key, FALSE, cur_url, page_info))
       /\ elements' = r.elements
       /\ pending_items' = CollectSorted(r.pending)
       /\ pc' = "exploring"
       /\ first_resp' = resp
       /\ last_pass' = [kind |-> "initial", resp |-> resp, page_id |-> page_id,
                        visited |-> visited_items]
       /\ UNCHANGED <<cur_url, visited_items, explored_count, item, sites, actions, logs>>
       /\ iter_trace' = <<"save_page", "collect">>
       /\ UNCHANGED <<clicks, click_failed, post_promoted, activated>>

CollectStep ==
    /\ \E resp \in SeqsUpTo(SiteElems, MaxElems) : AnalyzeAndCollectItems(resp, ListPageInfo)
    /\ UNCHANGED <<agentVars, auxVars>>

\* the same pass on longer element lists over every kind of element
CollectLong ==
    /\ \E resp \in SeqsUpTo(AllElems, MaxCollectLen) : AnalyzeAndCollectItems(resp, ListPageInfo)
    /\ UNCHANGED <<agentVars, auxVars>>

MaxItems == MaxPages * 3

\* the while condition of _explore_all_items without the item budget
LoopConditionNoBudget == pending_items # <<>>

\* the while condition of _explore_all_items
LoopCondition == pending_items # <<>> /\ explored_count < MaxItems

\* the test that skips a popped item
AlreadyVisitedNever(key) == FALSE

AlreadyVisited(key) == key \in visited_items

\* one iteration that pops an item whose key is already visited: continue
ExploreSkip ==
    /\ pc = "exploring"
    /\ LoopCondition
    /\ AlreadyVisited(KeyOfItem(Head(pending_items)))
    /\ pending_items' = Tail(pending_items)
    /\ last_pass' = NoPass
    /\ UNCHANGED <<pc, cur_url, visited_urls, visited_items, explored_count, item>>
    /\ UNCHANGED dbVars
    /\ iter_trace' = <<>>
    /\ UNCHANGED <<clicks, click_failed, first_resp, post_promoted, activated>>
    /\ UNCHANGED <<agentVars, auxVars>>

\* one iteration up to its first browser call: pop, mark visited, count
ExplorePop ==
    /\ pc = "exploring"
    /\ LoopCondition
    /\ ~AlreadyVisited(KeyOfItem(Head(pending_items)))
    /\ item' = Head(pending_items)
    /\ pending_items' = Tail(pending_items)
    /\ visited_items' = visited_items \cup {KeyOfItem(Head(pending_items))}
    /\ explored_count' = explored_count + 1
    /\ pc' = "activating"
    /\ last_pass' = NoPass
    /\ UNCHANGED <<cur_url, visited_urls>>
    /\ UNCHANGED dbVars
    /\ iter_trace' = <<>>
    /\ UNCHANGED <<clicks, click_failed, first_resp, post_promoted, activated>>
    /\ UNCHANGED <<agentVars, auxVars>>

\* a return to the source page whenever the two URLs differ as written
EnsureOnSourcePageExact(it, url) ==
    IF url # it.source_url THEN it.source_url ELSE url

\* _ensure_on_source_page: back to the item's source URL when the session drifted
EnsureOnSourcePage(it, url) ==
    IF NormalizeUrl(url) # NormalizeUrl(it.source_url) THEN it.source_url ELSE url

\* what _ensure_on_source_page did with the browser at url: a goto, or nothing
EnsureTrace(it, url) ==
    IF EnsureOnSourcePage(it, url) # url THEN <<"goto">> ELSE <<>>

\* a drain loop that analyses the page whatever the click returned
RunsAnalysisAlways(success) == TRUE

\* `if success:` of the drain loop: the analysis runs after a click that succeeded
RunsAnalysis(success) == success

\* what _analyze_after_click does after a click, in the order of its code: the
\* three rows, then the collection pass on a new page or a modal, then the
\* dismissal of a modal
AfterClickTrace(collect, has_modal) ==
    <<"click", "save_page", "save_action", "save_exploration_log">>
      \o (IF collect THEN <<"collect">> ELSE <<>>)
      \o (IF has_modal THEN <<"close_modal">> ELSE <<>>)

\* an Action row that names the page the item came from as its target
ActionRowBack(it, site_id, page_id) ==
    [site_id |-> site_id, source_page_id |-> it.source_page_id,
     element_id |-> it.element_id, action_type |-> "click",
     target_page_id |-> it.source_page_id,
     notes |-> [item_type |-> it.item_type, name |-> it.name,
                crud_type |-> it.crud_type]]

\* the Action row of an activation: page_id is the id save_page gave the
\* Page row just written
ActionRow(it, site_id, page_id) ==
    [site_id |-> site_id, source_page_id |-> it.source_page_id,
     element_id |-> it.element_id, action_type |-> "click",
     target_page_id |-> page_id,
     notes |-> [item_type |-> it.item_type, name |-> it.name,
                crud_type |-> it.crud_type]]

\* a log row that carries the session_id of an earlier exploration
LogRowStale(it, site_id, page_id, has_modal) ==
    [site_id |-> site_id, session_id |-> EarlierSessionId, page_id |-> page_id,
     action_taken |-> [item_type |-> it.item_type, name |-> it.name],
     result |-> has_modal]

\* the ExplorationLog row of an activation
LogRow(it, site_id, page_id, has_modal) ==
    [site_id |-> site_id, session_id |-> SessionId, page_id |-> page_id,
     action_taken |-> [item_type |-> it.item_type, name |-> it.name],
     result |-> has_modal]

\* a test that collects on new pages only
ShouldCollectNewOnly(is_new_page, has_modal) == is_new_page

\* `if is_new_page or has_modal:` before the result is tagged and collected
ShouldCollect(is_new_page, has_modal) == is_new_page \/ has_modal

\* _analyze_after_click: the page reached is new_url, has_modal is what
\* _check_for_modal found, resp the model's element list
AnalyzeAfterClick(it, new_url, has_modal, resp, page_info) ==
    LET url_key == NormalizeUrl(new_url)
        is_new_page == url_key \notin visited_urls
        site_id == SiteIdOf(sites, SiteDomain)
        page_id == NewId(pages)
        r == PostLoop(resp, page_id, new_url, elements, pending_items, visited_items, 0)
        collect == ShouldCollect(is_new_page, has_modal)
    IN /\ visited_urls' = visited_urls \cup {url_key}
       /\ pages' = SaveNew(pages, PageRow(site_id, url_key, has_modal, new_url, page_info))
       /\ actions' = SaveNew(actions, ActionRow(it, site_id, page_id))
       /\ logs' = SaveNew(logs, LogRow(it, site_id, page_id, has_modal))
       /\ elements' = IF collect THEN r.elements ELSE elements
       /\ pending_items' =
             IF collect /\ r.new_items > 0
             THEN PostSorted(r.pending)
             ELSE pending_items
       /\ post_promoted' = IF collect THEN post_promoted + r.new_items ELSE post_promoted
       /\ last_pass' = IF collect
                       THEN [kind |-> "post", resp |-> resp, page_id |-> page_id,
                             visited |-> visited_items]
                       ELSE NoPass
       /\ cur_url' = new_url
       /\ iter_trace' = EnsureTrace(it, cur_url) \o AfterClickTrace(collect, has_modal)

\* the rest of the iteration when the click fails (_click_item returns False)
ExploreItemFail ==
    /\ pc = "activating"
    /\ IF interrupted /\ EnsureOnSourcePage(item, cur_url) # cur_url
       THEN \* the goto of _ensure_on_source_page raises on the closed page
            /\ pc' = "raised"
            /\ UNCHANGED <<cur_url, clicks, click_failed, item, iter_trace>>
            /\ UNCHANGED <<visited_urls, pending_items, pages, elements, actions, logs>>
            /\ UNCHANGED <<post_promoted, last_pass>>
       ELSE /\ clicks' = Append(clicks, KeyOfItem(item))
            /\ click_failed' = TRUE
            /\ item' = NoItem
            /\ pc' = "exploring"
            /\ IF RunsAnalysis(FALSE)
               THEN AnalyzeAfterClick(item, EnsureOnSourcePage(item, cur_url), FALSE, <<>>,
                                      ListPageInfo)
               ELSE /\ cur_url' = EnsureOnSourcePage(item, cur_url)
                    /\ iter_trace' = EnsureTrace(item, cur_url) \o <<"click_failed">>
                    /\ UNCHANGED <<visited_urls, pending_items, pages, elements,
                                   actions, logs>>
                    /\ UNCHANGED <<post_promoted, last_pass>>
    /\ UNCHANGED <<visited_items, explored_count, sites, first_resp, activated>>
    /\ UNCHANGED <<agentVars, auxVars>>

\* the rest of the iteration when the click succeeds and analyze_page has
\* returned page_info
ActivationSucceededOn(page_info, post_elems) ==
    /\ pc = "activating"
    /\ ~interrupted
    /\ RunsAnalysis(TRUE)
    /\ clicks' = Append(clicks, KeyOfItem(item))
    /\ \E new_url \in ClickUrls, has_modal \in BOOLEAN :
          LET collect == NormalizeUrl(new_url) \notin visited_urls \/ has_modal
              lists == IF collect
                       THEN {s \in SeqsUpTo(post_elems, MaxElems) :
                                Len(elements) + Len(s) <= MaxElemRows}
                       ELSE {<<>>}
          IN \E resp \in lists : AnalyzeAfterClick(item, new_url, has_modal, resp, page_info)
    /\ item' = NoItem
    /\ pc' = "exploring"
    /\ activated' = activated + 1
    /\ UNCHANGED <<visited_items, explored_count, sites, click_failed, first_resp>>

\* the same on a site whose result pages show the elements PostElems
ActivationSucceeded(page_info) == ActivationSucceededOn(page_info, PostElems)

\* the rest of the iteration when the click succeeds
ExploreItemSuccess ==
    /\ ActivationSucceeded(ListPageInfo)
    /\ UNCHANGED <<agentVars, auxVars>>

\* WebAgent.stop() called from outside while the drain loop runs: the browser
\* is closed under it; the explorer has no flag of its own to read
ExploreInterrupt ==
    /\ pc \in {"exploring", "activating"}
    /\ ~interrupted
    /\ interrupted' = TRUE
    /\ UNCHANGED <<explVars, dbVars, histVars, agentVars>>
    /\ UNCHANGED <<fn_call, fn_ret, store_fail, mysql_db>>

\* the loop condition is false: explore_site returns
ExploreExit ==
    /\ pc = "exploring"
    /\ ~LoopCondition
    /\ pc' = "done"
    /\ last_pass' = NoPass
    /\ UNCHANGED <<cur_url, visited_urls, visited_items, pending_items, explored_count, item>>
    /\ UNCHANGED dbVars
    /\ iter_trace' = <<>>
    /\ UNCHANGED <<clicks, click_failed, first_resp, post_promoted, activated>>
    /\ UNCHANGED <<agentVars, auxVars>>

Next ==
    \/ ExploreSiteStart
    \/ CollectStep
    \/ ExploreSkip
    \/ ExplorePop
    \/ ExploreItemFail
    \/ ExploreItemSuccess
    \/ ExploreExit

\* a site on which the model also reports elements without a tag id and
\* with a tag id the tagger did not map
TagElems == {EReports, EGhost, EUntagged}
PostTagElems == {EReports, EUntagged}

CollectStepTags ==
    /\ \E resp \in SeqsUpTo(TagElems, MaxElems) : AnalyzeAndCollectItems(resp, ListPageInfo)
    /\ UNCHANGED <<agentVars, auxVars>>

ExploreItemTags ==
    /\ ActivationSucceededOn(ListPageInfo, PostTagElems)
    /\ UNCHANGED <<agentVars, auxVars>>

NextElements ==
    \/ ExploreSiteStart
    \/ CollectStepTags
    \/ ExploreSkip
    \/ ExplorePop
    \/ ExploreItemFail
    \/ ExploreItemTags
    \/ ExploreExit

----------------------------------------------------------------------------
(* Dismissing a modal: SiteExplorer._close_modal *)

\* close_selectors, in the order of the list; the last two are the buttons
\* whose text is the Chinese for "cancel" and for "close"
CloseSelectors ==
    <<".ant-modal-close", ".el-dialog__close", ".modal-close", "[aria-label='Close']",
      ".t-dialog__close", "button:has-text(cancel)", "button:has-text(close)">>

\* what probing one selector can do: is_visible answers False; is_visible or
\* the click raises; the element is visible and the click returns
ProbeOutcomes == {"hidden", "raises", "clicked"}

\* what the page does to one call of _close_modal: the outcome of each probe
\* it may make, and whether keyboard.press("Escape") raises
CloseOutcomes ==
    [probes : [1..Len(CloseSelectors) -> ProbeOutcomes], escape : {"ok", "raises"}]

\* a loop that never returns from inside
ReturnsNever(outcome) == FALSE

\* the `return` after a click that came back
ReturnsAfter(outcome) == outcome = "clicked"

\* the places of _close_modal that sit in a try whose except clause swallows
\* every Exception
CloseSwallows == {"probe", "escape"}

\* the for loop from selector i on, then the escape key; done is what has
\* been probed so far
RECURSIVE CloseFrom(_, _, _)
CloseFrom(o, i, done) ==
    IF i > Len(CloseSelectors)
    THEN [probes |-> done, escape |-> IF o.escape = "ok" THEN "sent" ELSE "failed",
          raised |-> o.escape = "raises" /\ "escape" \notin CloseSwallows]
    ELSE LET d == Append(done, [selector |-> CloseSelectors[i], outcome |-> o.probes[i]])
         IN IF o.probes[i] = "raises" /\ "probe" \notin CloseSwallows
            THEN [probes |-> d, escape |-> "none", raised |-> TRUE]
            ELSE IF ReturnsAfter(o.probes[i])
            THEN [probes |-> d, escape |-> "none", raised |-> FALSE]
            ELSE CloseFrom(o, i + 1, d)

\* _close_modal
CloseModal(o) == CloseFrom(o, 1, <<>>)

\* _close_modal called on its own, on a page with any behaviour, in a
\* process that does not run explore_site
CloseModalCall ==
    /\ pc = "init"
    /\ fn_call = NoFn
    /\ \E o \in CloseOutcomes :
          /\ fn_call' = [op |-> "close_modal", outcomes |-> o]
          /\ fn_ret' = CloseModal(o)
    /\ pc' = "standalone"
    /\ UNCHANGED <<cur_url, visited_urls, visited_items, pending_items, explored_count,
                   item, sites, pages, elements, actions, logs>>
    /\ UNCHANGED histVars
    /\ UNCHANGED <<store_fail, interrupted, mysql_db>>
    /\ UNCHANGED agentVars

\* the exploration, and the dismissal on its own
NextModal ==
    \/ ExploreSiteStart
    \/ CollectStep
    \/ ExploreSkip
    \/ ExplorePop
    \/ ExploreItemFail
    \/ ExploreItemSuccess
    \/ ExploreExit
    \/ CloseModalCall

----------------------------------------------------------------------------
(* The memory-based planner: MemoryBasedPlanner.plan_task *)

\* WebAgent._max_steps
MaxSteps == 20
\* the threshold 0.6 of execute_task; confidences are counted in hundredths
ConfidenceThreshold == 60
\* longest response of the model to the planning prompt, in tokens
MaxRespLen == 3
\* longest plan the model returns
MaxPlanSteps == 2
\* execute_task calls in one agent session
MaxTasks == 1

\* the "plan" list of a plan of n steps, numbered from 1
PlanSteps(n) ==
    [i \in 1..n |-> [step |-> i, action_type |-> "click",
                     target_description |-> "target", action_detail |-> "detail"]]

FullPlan(b, c, n) ==
    [can_plan |-> b, confidence |-> c, plan |-> PlanSteps(n), unknown_steps |-> <<>>]

\* the value of execute_task's local plan before the planner is asked
NoPlan == [kind |-> "none"]

\* the canonical result of plan_task when nothing could be parsed; "unparseable"
\* stands for the one message of its unknown_steps
CannotPlan ==
    [can_plan |-> FALSE, confidence |-> 0, plan |-> <<>>,
     unknown_steps |-> <<"unparseable">>]

\* a JSON object with none of the plan's keys
NoKeysDict == [note |-> "none"]

\* the objects the model may write as the body of its answer
Payloads ==
    {FullPlan(TRUE, c, MaxPlanSteps) : c \in {55, 60, 61}}
      \cup {FullPlan(TRUE, 61, n) : n \in 0..MaxPlanSteps}
      \cup {FullPlan(FALSE, 90, 1), [can_plan |-> TRUE, plan |-> PlanSteps(1)]}

\* a response is a string of tokens: prose, braces, and "body" for the
\* key/value text of the payload
Tokens == {"prose", "{", "}", "body"}

RECURSIVE TokSeqs(_)
TokSeqs(n) ==
    IF n = 0 THEN {<<>>}
    ELSE LET shorter == TokSeqs(n - 1)
         IN shorter \cup {Append(s, t) : s \in {x \in shorter : Len(x) = n - 1}, t \in Tokens}

\* what llm.chat does for plan_task: it raises, or returns text
NoCall == [kind |-> "none", toks |-> <<>>, payload |-> NoKeysDict]
PlanCalls ==
    {[kind |-> "raise", toks |-> <<>>, payload |-> NoKeysDict]}
      \cup UNION {{[kind |-> "text", toks |-> s, payload |-> p] :
                       p \in IF \E i \in 1..Len(s) : s[i] = "body"
                             THEN Payloads ELSE {NoKeysDict}} :
                   s \in TokSeqs(MaxRespLen)}

\* re.search(r'\{[\s\S]*\}', response): from the first "{" to the last "}"
\* after it; <<>> when there is no match
RegexSearch(toks) ==
    LET opens == {i \in 1..Len(toks) : toks[i] = "{"}
        first == CHOOSE i \in opens : \A k \in opens : i <= k
        closes == {j \in 1..Len(toks) : toks[j] = "}" /\ j > first}
        last == CHOOSE j \in closes : \A k \in closes : k <= j
    IN IF opens = {} THEN <<>>
       ELSE IF closes = {} THEN <<>>
       ELSE SubSeq(toks, first, last)

\* nesting depth in front of token i
DepthBefore(sub, i) ==
    Cardinality({k \in 1..(i - 1) : sub[k] = "{"})
      - Cardinality({k \in 1..(i - 1) : sub[k] = "}"})

\* json.loads of the matched text: one object, braces nested properly, no
\* prose inside, nothing after its end; the payload is its value when its
\* key/value text stands at the top level
JsonLoads(sub, payload) ==
    LET n == Len(sub)
        ok == /\ n >= 2
              /\ sub[1] = "{"
              /\ \A i \in 2..n : DepthBefore(sub, i) >= 1 /\ sub[i] # "prose"
              /\ DepthBefore(sub, n + 1) = 0
        top == \E i \in 1..n : sub[i] = "body" /\ DepthBefore(sub, i) = 1
    IN [ok |-> ok, value |-> IF ok /\ top THEN payload ELSE NoKeysDict]

\* the try block of plan_task: it returns a value, raises, or falls through
TryBody(call) ==
    IF call.kind = "raise"
    THEN [out |-> "exc", exc |-> "Exception", value |-> NoPlan]
    ELSE IF call.toks = <<>>
    THEN [out |-> "fall", exc |-> "none", value |-> NoPlan]
    ELSE LET m == RegexSearch(call.toks)
             j == JsonLoads(m, call.payload)
         IN IF m = <<>>
            THEN [out |-> "fall", exc |-> "none", value |-> NoPlan]
            ELSE IF j.ok
            THEN [out |-> "return", exc |-> "none", value |-> j.value]
            ELSE [out |-> "exc", exc |-> "JSONDecodeError", value |-> NoPlan]

\* an except clause that catches the decode error alone
HandlesDecodeOnly(exc) == exc = "JSONDecodeError"

\* the except clauses of plan_task
Handles(exc) == exc \in {"JSONDecodeError", "Exception"}

\* the tables plan_task queries for its prompt: get_pages_by_site,
\* get_actions_from_page, get_task_paths_by_site
PlannerReads == {"pages", "actions", "task_paths"}

\* plan_task on what the model call produced
PlanTask(call) ==
    LET t == TryBody(call)
    IN IF t.out = "return" THEN [raised |-> FALSE, value |-> t.value]
       ELSE IF t.out = "exc" /\ ~Handles(t.exc) THEN [raised |-> TRUE, value |-> NoPlan]
       ELSE [raised |-> FALSE, value |-> CannotPlan]

----------------------------------------------------------------------------
(* The page analyzer, and an exploration in which its model call fails *)

\* the objects the model may write as its classification of a page
PagePayloads == {ListPageInfo, [page_type |-> "wizard"], NoKeysDict}

\* what llm.analyze_with_vision does for analyze_page: it raises, or returns
\* text: nothing, prose, an opening brace alone, braces around prose, an
\* object cut short, an object
PageCalls ==
    {[kind |-> "raise", toks |-> <<>>, payload |-> NoKeysDict]}
      \cup {[kind |-> "text", toks |-> s, payload |-> NoKeysDict] :
               s \in {<<>>, <<"prose">>, <<"{", "prose">>, <<"{", "prose", "}">>}}
      \cup {[kind |-> "text", toks |-> s, payload |-> q] :
               s \in {<<"{", "body">>, <<"prose", "{", "body", "}">>}, q \in PagePayloads}

\* the try block of analyze_page: it returns the parsed object, raises, or
\* falls through to the default
AnalyzeTry(call) ==
    IF call.kind = "raise"
    THEN [out |-> "exc", exc |-> "Exception", value |-> DefaultPageInfo]
    ELSE IF call.toks = <<>>
    THEN [out |-> "fall", exc |-> "none", value |-> DefaultPageInfo]
    ELSE LET found == RegexSearch(call.toks)
             j == JsonLoads(found, call.payload)
         IN IF found = <<>>
            THEN [out |-> "fall", exc |-> "none", value |-> DefaultPageInfo]
            ELSE IF j.ok
            THEN [out |-> "return", exc |-> "none", value |-> j.value]
            ELSE [out |-> "exc", exc |-> "JSONDecodeError", value |-> DefaultPageInfo]

\* except clauses that catch the decode error alone
AnalyzerHandlesDecodeOnly(exc) == exc = "JSONDecodeError"

\* the except clauses of analyze_page
AnalyzerHandles(exc) == exc \in {"JSONDecodeError", "Exception"}

\* analyze_page on what the model call produced
AnalyzePage(call) ==
    LET a == AnalyzeTry(call)
    IN IF a.out = "return" THEN [raised |-> FALSE, value |-> a.value]
       ELSE IF a.out = "exc" /\ ~AnalyzerHandles(a.exc)
       THEN [raised |-> TRUE, value |-> DefaultPageInfo]
       ELSE [raised |-> FALSE, value |-> DefaultPageInfo]

\* how a call fails to yield a classification: the call raised, the text
\* holds no braces (or is empty), the braces do not parse; "none" if it does not fail
FailureKind(call) ==
    LET a == AnalyzeTry(call)
    IN IF a.out = "exc" THEN a.exc
       ELSE IF a.out = "fall" THEN "no_json"
       ELSE "none"

FailingPageCalls == {c \in PageCalls : FailureKind(c) # "none"}

\* the variables the analyzer's own record leaves alone
degradeFrame == <<agentVars, store_fail, interrupted, mysql_db>>

\* what analyze_page can return to its caller when the classification fails
FailedAnalyses == {AnalyzePage(call) : call \in FailingPageCalls}

\* the first analysis of explore_site when the classification of the start
\* page fails
CollectStepDegraded ==
    /\ pc = "collecting"
    /\ \E a \in FailedAnalyses :
          /\ fn_call' = [op |-> "analyze_page"]
          /\ fn_ret' = a
          /\ IF a.raised
             THEN /\ pc' = "raised"
                  /\ UNCHANGED <<cur_url, visited_urls, visited_items, pending_items,
                                 explored_count, item>>
                  /\ UNCHANGED <<dbVars, histVars>>
             ELSE \E resp \in SeqsUpTo(SiteElems, MaxElems) :
                     AnalyzeAndCollectItems(resp, a.value)
    /\ UNCHANGED degradeFrame

\* the rest of an iteration whose click succeeded when the classification of
\* the page reached fails
ExploreItemDegraded ==
    /\ pc = "activating"
    /\ \E a \in FailedAnalyses :
          /\ fn_call' = [op |-> "analyze_page"]
          /\ fn_ret' = a
          /\ IF a.raised
             THEN /\ pc' = "raised"
                  /\ UNCHANGED <<cur_url, visited_urls, visited_items, pending_items,
                                 explored_count, item>>
                  /\ UNCHANGED <<dbVars, histVars>>
             ELSE ActivationSucceeded(a.value)
    /\ UNCHANGED degradeFrame

NextDegrade ==
    \/ ExploreSiteStart
    \/ CollectStepDegraded
    \/ ExploreSkip
    \/ ExplorePop
    \/ ExploreItemFail
    \/ ExploreItemDegraded
    \/ ExploreExit

----------------------------------------------------------------------------
(* The agent's task executor loop: WebAgent *)

\* the instruction of the task, a text of characters: " add  B"
Instruction == <<" ", "a", "d", "d", " ", " ", "B">>

\* str.split()
RECURSIVE SplitWs(_)
SplitWs(s) ==
    IF s = <<>> THEN <<>>
    ELSE IF s[1] = " " THEN SplitWs(Tail(s))
    ELSE LET n == CHOOSE k \in 1..Len(s) :
                     /\ \A j \in 1..k : s[j] # " "
                     /\ k = Len(s) \/ s[k + 1] = " "
         IN <<SubSeq(s, 1, n)>> \o SplitWs(SubSeq(s, n + 1, Len(s)))

\* " ".join(words)
RECURSIVE JoinSp(_)
JoinSp(words) ==
    IF words = <<>> THEN <<>>
    ELSE IF Len(words) = 1 THEN words[1]
    ELSE words[1] \o <<" ">> \o JoinSp(Tail(words))

\* keywords that are the instruction as typed
TaskKeywordsRaw(instruction) == instruction

\* " ".join(instruction.split())
TaskKeywords(instruction) == JoinSp(SplitWs(instruction))

\* the text between the quotes of a quoted word, the word itself otherwise
Unquoted(tok) ==
    CASE tok = "'HELLO'" -> "HELLO"
      [] tok = "'DONE'" -> "DONE"
      [] OTHER -> tok

\* a command of the model is a string of upper-cased words; a pattern of one
\* word, searched anywhere, finds the word between quotes too
HasWord(cmd, w) == \E i \in 1..Len(cmd) : Unquoted(cmd[i]) = w

\* the default and the longest wait of a WAIT command, in seconds
WaitDefault == 2
WaitMax == 30
\* longest command handed to the executor on its own, in words
MaxCmdLen == 3

\* the words of a command: the verbs, a direction, tag references, quoted
\* text, digit strings, and a word of no meaning
TagToks == {"[1]", "[9]"}
QuotedToks == {"'HELLO'", "'DONE'"}
DigitToks == {"5", "999"}
CmdToks ==
    {"DONE", "PAUSE", "WAIT", "CLICK", "TYPE", "SCROLL", "GOTO", "UP", "HELLO"}
      \cup TagToks \cup QuotedToks \cup DigitToks

\* int(match.group(1)) on a digit string, (\d+) on a tag reference
NumVal(tok) ==
    CASE tok = "5" -> 5
      [] tok = "999" -> 999
      [] tok = "[1]" -> 1
      [] tok = "[9]" -> 9
      [] OTHER -> 0

RECURSIVE CmdSeqs(_)
CmdSeqs(n) ==
    IF n = 0 THEN {<<>>}
    ELSE LET shorter == CmdSeqs(n - 1)
         IN shorter \cup {Append(s, w) : s \in {x \in shorter : Len(x) = n - 1}, w \in CmdToks}

\* the commands the model gives in live execution and for a plan step
LiveCmds == {<<"CLICK", "[1]">>, <<"DONE">>}
PlanCmds == LiveCmds \cup {<<"FAIL">>}
\* steps of a live run at which the model may answer with text that is no command
MaxOddSteps == 1
\* the answers of the model at a live step, n steps done before it
LiveCmdsAt(n) == IF n < MaxOddSteps THEN LiveCmds \cup {<<"HELLO">>} ELSE LiveCmds

\* pattern.search(action) for a pattern of one word: the first place it stands, 0 for none
FirstAt(cmd, w) ==
    IF HasWord(cmd, w)
    THEN CHOOSE i \in 1..Len(cmd) :
            Unquoted(cmd[i]) = w /\ \A k \in 1..(i - 1) : Unquoted(cmd[k]) # w
    ELSE 0

\* pattern.search(action) for a verb and what must follow it: the first place
\* where the verb stands with words of the sets After in front of it, 0 for none
MatchAt(cmd, w, After) ==
    LET ok(i) == /\ cmd[i] = w
                 /\ i + Len(After) <= Len(cmd)
                 /\ \A k \in 1..Len(After) : cmd[i + k] \in After[k]
        hits == {i \in 1..Len(cmd) : ok(i)}
    IN IF hits = {} THEN 0 ELSE CHOOSE i \in hits : \A k \in hits : i <= k

\* a wait that is not clamped
ClampWaitOff(n) == n

\* min(seconds, 30)
ClampWait(n) == IF n < WaitMax THEN n ELSE WaitMax

\* the WAIT branch: the digits after the first WAIT, 2 without digits
WaitSeconds(cmd) ==
    LET i == FirstAt(cmd, "WAIT")
    IN ClampWait(IF i < Len(cmd) /\ cmd[i + 1] \in DigitToks
                 THEN NumVal(cmd[i + 1]) ELSE WaitDefault)

\* what execute returns and does: done, the message, the seconds the WAIT
\* branch sleeps (0 in the other branches), the browser call made
Outcome(d, msg, secs, call) ==
    [done |-> d, result |-> msg, seconds |-> secs, browser |-> call]

\* ActionExecutor.execute: the patterns are searched anywhere in the command,
\* in the order DONE, PAUSE, WAIT, CLICK, TYPE, SCROLL, GOTO; the browser
\* calls are taken to succeed (a failing one changes the message alone)
Execute(cmd) ==
    IF HasWord(cmd, "DONE") THEN Outcome(TRUE, "task done", 0, "none")
    ELSE IF HasWord(cmd, "PAUSE") THEN Outcome(FALSE, "manual done", 0, "none")
    ELSE IF HasWord(cmd, "WAIT") THEN Outcome(FALSE, "waited", WaitSeconds(cmd), "none")
    ELSE IF MatchAt(cmd, "CLICK", <<TagToks>>) > 0
    THEN LET tag == NumVal(cmd[MatchAt(cmd, "CLICK", <<TagToks>>) + 1])
         IN IF tag \in MappedTags THEN Outcome(FALSE, "clicked", 0, "click")
            ELSE Outcome(FALSE, "tag not found", 0, "none")
    ELSE IF MatchAt(cmd, "TYPE", <<TagToks, QuotedToks>>) > 0
    THEN LET tag == NumVal(cmd[MatchAt(cmd, "TYPE", <<TagToks, QuotedToks>>) + 1])
         IN IF tag \in MappedTags THEN Outcome(FALSE, "typed", 0, "fill")
            ELSE Outcome(FALSE, "tag not found", 0, "none")
    ELSE IF MatchAt(cmd, "SCROLL", <<{"UP"}>>) > 0
    THEN Outcome(FALSE, "scrolled", 0, "wheel")
    ELSE IF MatchAt(cmd, "GOTO", <<QuotedToks>>) > 0
    THEN Outcome(FALSE, "navigated", 0, "goto")
    ELSE Outcome(FALSE, "cannot parse", 0, "none")

\* execute called on its own with any command
ExecuteCall ==
    /\ fn_call = NoFn
    /\ \E cmd \in CmdSeqs(MaxCmdLen) :
          /\ fn_call' = [op |-> "execute", cmd |-> cmd]
          /\ fn_ret' = Execute(cmd)
    /\ UNCHANGED <<store_fail, interrupted, mysql_db>>
    /\ UNCHANGED <<explVars, dbVars, histVars, agentVars>>

\* what execute_task returns, or that it raised
Result(kind, n) == [kind |-> kind, steps |-> n]

NoSel == [mode |-> "none", use_memory |-> FALSE, site |-> 0]

\* TaskPath(site_id, task_description, task_keywords, action_sequence, success_count=1)
TaskPathRow(site_id, seq) ==
    [site_id |-> site_id, task_description |-> Instruction,
     task_keywords |-> TaskKeywords(Instruction), action_sequence |-> seq,
     success_count |-> 1, fail_count |-> 0]

\* WebAgent.__init__
AgentInitOn(paths) ==
    /\ life = "new"
    /\ use_memory = TRUE
    /\ db_open = FALSE
    /\ planner_set = FALSE
    /\ current_site = 0
    /\ running = FALSE
    /\ a_pc = "idle"
    /\ plan = NoPlan
    /\ step_idx = 1
    /\ step = 0
    /\ action_history = <<>>
    /\ task_paths = paths
    /\ result = Result("none", 0)
    /\ tasks_run = 0
    /\ plan_call = NoCall
    /\ sel = NoSel
    /\ plan_cmds = <<>>
    /\ executed_plan = <<>>
    /\ paths_at_entry = 0

\* WebAgent.__init__ on a store that holds no task path
AgentInit == AgentInitOn(<<>>)

\* start(use_memory): the browser; with memory the store and the planner
AgentStart ==
    /\ life = "new"
    /\ a_pc = "idle"
    /\ \E um \in BOOLEAN :
          /\ use_memory' = um
          /\ db_open' = um
          /\ planner_set' = um
    /\ life' = "started"
    /\ UNCHANGED <<current_site, running, a_pc, plan, step_idx, step, action_history,
                   task_paths, result, tasks_run, plan_call, sel, plan_cmds,
                   executed_plan, paths_at_entry>>
    /\ UNCHANGED <<explVars, dbVars, histVars, auxVars>>

\* goto(url): with memory and a store, the site of the URL becomes current
AgentGoto ==
    /\ life # "stopped"
    /\ a_pc = "idle"
    /\ IF use_memory /\ db_open
       THEN /\ sites' = GetOrCreateSite(sites, SiteDomain)
            /\ current_site' = SiteIdOf(sites', SiteDomain)
       ELSE UNCHANGED <<sites, current_site>>
    /\ UNCHANGED <<life, use_memory, db_open, planner_set, running, a_pc, plan,
                   step_idx, step, action_history, task_paths, result, tasks_run,
                   plan_call, sel, plan_cmds, executed_plan, paths_at_entry>>
    /\ UNCHANGED <<explVars, pages, elements, actions, logs, histVars, auxVars>>

\* stop(): clears the running flag, closes the browser and the store
AgentStop ==
    /\ life = "started"
    /\ a_pc \in {"idle", "plan", "live"}
    /\ running' = FALSE
    /\ life' = "stopped"
    /\ UNCHANGED <<use_memory, db_open, planner_set, current_site, a_pc, plan,
                   step_idx, step, action_history, task_paths, result, tasks_run,
                   plan_call, sel, plan_cmds, executed_plan, paths_at_entry>>
    /\ UNCHANGED <<explVars, dbVars, histVars, auxVars>>

\* execute_task up to the browser check
ExecuteTask ==
    /\ life # "stopped"
    /\ a_pc = "idle"
    /\ tasks_run < MaxTasks
    /\ tasks_run' = tasks_run + 1
    /\ running' = TRUE
    /\ plan' = NoPlan
    /\ step_idx' = 1
    /\ step' = 0
    /\ action_history' = <<>>
    /\ plan_call' = NoCall
    /\ sel' = NoSel
    /\ plan_cmds' = <<>>
    /\ executed_plan' = <<>>
    /\ paths_at_entry' = Len(task_paths)
    /\ store_fail' = FALSE
    /\ IF life = "new"
       THEN /\ result' = Result("browser_not_started", 0)
            /\ a_pc' = "idle"
       ELSE /\ result' = Result("none", 0)
            /\ a_pc' = "select"
    /\ UNCHANGED <<life, use_memory, db_open, planner_set, current_site, task_paths>>
    /\ UNCHANGED <<explVars, dbVars, histVars, fn_call, fn_ret, interrupted, mysql_db>>

\* a plan is usable from confidence 0.6 on
PlanUsableAtLeast(p) ==
    Get(p, "can_plan", FALSE) /\ Get(p, "confidence", 0) >= ConfidenceThreshold

\* plan.get("can_plan") and plan.get("confidence", 0) > 0.6
PlanUsable(p) ==
    Get(p, "can_plan", FALSE) /\ Get(p, "confidence", 0) > ConfidenceThreshold


\* a test that asks the planner whenever there is one, site or no site
ConsultsPlannerWithoutSite == use_memory /\ planner_set

\* `if self._use_memory and self.current_site and self.planner:`
ConsultsPlanner == use_memory /\ current_site # 0 /\ planner_set

\* execute_task from the memory test to the planner's model call: without
\* memory, site or planner live execution starts at once; else plan_task
\* sends its prompt and the model's answer arrives
PlanTaskCall ==
    /\ a_pc = "select"
    /\ IF ConsultsPlanner
       THEN /\ \E call \in PlanCalls : plan_call' = call
            /\ a_pc' = "planning"
            /\ sel' = sel
       ELSE /\ a_pc' = "live"
            /\ sel' = [mode |-> "live", use_memory |-> use_memory, site |-> current_site]
            /\ plan_call' = plan_call
    /\ UNCHANGED <<life, use_memory, db_open, planner_set, current_site, running,
                   plan, step_idx, step, action_history, task_paths, result,
                   tasks_run, plan_cmds, executed_plan, paths_at_entry>>
    /\ UNCHANGED <<explVars, dbVars, histVars, auxVars>>

\* plan_task from the model's answer on, and execute_task's choice of the
\* executor on the plan it returns
SelectExecutor ==
    /\ a_pc = "planning"
    /\ LET r == PlanTask(plan_call)
           mode == IF PlanUsable(r.value) THEN "plan" ELSE "live"
       IN IF r.raised
          THEN /\ plan' = NoPlan
               /\ result' = Result("raised", 0)
               /\ a_pc' = "idle"
               /\ sel' = sel
          ELSE /\ plan' = r.value
               /\ result' = result
               /\ a_pc' = mode
               /\ sel' = [mode |-> mode, use_memory |-> use_memory, site |-> current_site]
    /\ plan_call' = NoCall
    /\ UNCHANGED <<life, use_memory, db_open, planner_set, current_site, running,
                   step_idx, step, action_history, task_paths, tasks_run,
                   plan_cmds, executed_plan, paths_at_entry>>
    /\ UNCHANGED <<explVars, dbVars, histVars, auxVars>>

\* a model that is never taken to report a missing target
ReportsFailNever(cmd) == FALSE

\* "FAIL" in action.upper()
ReportsFail(cmd) == HasWord(cmd, "FAIL")

\* one iteration of the loop of _execute_with_plan.  On a closed browser the
\* screenshot call raises out of execute_task.
PlanStep ==
    /\ a_pc = "plan"
    /\ step_idx <= Len(Get(plan, "plan", <<>>))
    /\ IF life = "stopped"
       THEN /\ result' = Result("raised", 0)
            /\ a_pc' = "idle"
            /\ UNCHANGED <<step_idx, step, action_history, task_paths,
                           plan_cmds, executed_plan, store_fail>>
       ELSE \E cmd \in PlanCmds :
              /\ plan_cmds' = Append(plan_cmds, cmd)
              /\ IF ReportsFail(cmd)
                 THEN /\ a_pc' = "live"
                      /\ step' = 0
                      /\ action_history' = <<>>
                      /\ UNCHANGED <<step_idx, executed_plan, task_paths, result, store_fail>>
                 ELSE LET e == Execute(cmd)
                          steps == Get(plan, "plan", <<>>)
                      IN /\ executed_plan' = Append(executed_plan, step_idx)
                         /\ IF e.done
                            THEN /\ \E written \in BOOLEAN :
                                      /\ task_paths' =
                                            IF db_open /\ current_site # 0 /\ written
                                            THEN SaveNew(task_paths,
                                                         TaskPathRow(current_site, steps))
                                            ELSE task_paths
                                      /\ store_fail' =
                                            (db_open /\ current_site # 0 /\ ~written)
                                 /\ result' = Result("plan_done", steps[step_idx].step)
                                 /\ a_pc' = "idle"
                                 /\ step_idx' = step_idx
                            ELSE /\ step_idx' = step_idx + 1
                                 /\ UNCHANGED <<task_paths, result, a_pc, store_fail>>
                         /\ UNCHANGED <<step, action_history>>
    /\ UNCHANGED <<life, use_memory, db_open, planner_set, current_site, running,
                   plan, tasks_run, plan_call, sel, paths_at_entry>>
    /\ UNCHANGED <<explVars, dbVars, histVars, fn_call, fn_ret, interrupted, mysql_db>>

\* an end of the plan that records the plan as a task path
PlanFinishRecording ==
    /\ a_pc = "plan"
    /\ step_idx > Len(Get(plan, "plan", <<>>))
    /\ result' = Result("plan_finished", Len(Get(plan, "plan", <<>>)))
    /\ a_pc' = "idle"
    /\ task_paths' = SaveNew(task_paths, TaskPathRow(current_site, Get(plan, "plan", <<>>)))
    /\ UNCHANGED <<life, use_memory, db_open, planner_set, current_site, running,
                   plan, step_idx, step, action_history, tasks_run,
                   plan_call, sel, plan_cmds, executed_plan, paths_at_entry>>
    /\ UNCHANGED <<explVars, dbVars, histVars, auxVars>>

\* _execute_with_plan after the last plan step
PlanFinish ==
    /\ a_pc = "plan"
    /\ step_idx > Len(Get(plan, "plan", <<>>))
    /\ result' = Result("plan_finished", Len(Get(plan, "plan", <<>>)))
    /\ a_pc' = "idle"
    /\ UNCHANGED <<life, use_memory, db_open, planner_set, current_site, running,
                   plan, step_idx, step, action_history, task_paths, tasks_run,
                   plan_call, sel, plan_cmds, executed_plan, paths_at_entry>>
    /\ UNCHANGED <<explVars, dbVars, histVars, auxVars>>

\* a live loop that gives up one step early
LiveLoopConditionOneLess == running /\ step < MaxSteps - 1

\* while self._running and step < self._max_steps
LiveLoopCondition == running /\ step < MaxSteps

\* one iteration of the loop of _execute_without_memory
LiveStep ==
    /\ a_pc = "live"
    /\ LiveLoopCondition
    /\ \E cmd \in LiveCmdsAt(step) :
          LET e == Execute(cmd)
              history == Append(action_history,
                                [step |-> step + 1, action |-> cmd, result |-> e.result])
          IN /\ step' = step + 1
             /\ action_history' = history
             /\ IF e.done
                THEN /\ \E written \in BOOLEAN :
                          /\ task_paths' =
                                IF use_memory /\ db_open /\ current_site # 0 /\ written
                                THEN SaveNew(task_paths, TaskPathRow(current_site, history))
                                ELSE task_paths
                          /\ store_fail' =
                                (use_memory /\ db_open /\ current_site # 0 /\ ~written)
                     /\ result' = Result("live_done", step + 1)
                     /\ a_pc' = "idle"
                ELSE UNCHANGED <<task_paths, result, a_pc, store_fail>>
    /\ UNCHANGED <<life, use_memory, db_open, planner_set, current_site, running,
                   plan, step_idx, tasks_run, plan_call, sel, plan_cmds,
                   executed_plan, paths_at_entry>>
    /\ UNCHANGED <<explVars, dbVars, histVars, fn_call, fn_ret, interrupted, mysql_db>>

\* _execute_without_memory after its loop: the message names _max_steps
LiveExit ==
    /\ a_pc = "live"
    /\ ~LiveLoopCondition
    /\ result' = Result("max_steps", MaxSteps)
    /\ a_pc' = "idle"
    /\ UNCHANGED <<life, use_memory, db_open, planner_set, current_site, running,
                   plan, step_idx, step, action_history, task_paths, tasks_run,
                   plan_call, sel, plan_cmds, executed_plan, paths_at_entry>>
    /\ UNCHANGED <<explVars, dbVars, histVars, auxVars>>

NextAgent ==
    \/ AgentStart
    \/ AgentGoto
    \/ AgentStop
    \/ ExecuteTask
    \/ PlanTaskCall
    \/ SelectExecutor
    \/ PlanStep
    \/ PlanFinish
    \/ LiveStep
    \/ LiveExit

----------------------------------------------------------------------------
(* The memory store on its own: strings, URL patterns, the queries *)

\* longest path of a URL or pattern handed to the matcher, in characters
MaxPathLen == 3

\* the characters of a path: the separator, a letter, a digit, the wildcard
PathChars == {"/", "a", "1", "*"}

RECURSIVE PathSeqs(_)
PathSeqs(n) ==
    IF n = 0 THEN {<<>>}
    ELSE LET shorter == PathSeqs(n - 1)
         IN shorter \cup {Append(s, c) : s \in {x \in shorter : Len(x) = n - 1}, c \in PathChars}

\* a URL string: whether it has a scheme and host in front, and its path
UrlStr(host, path) == [host |-> host, path |-> path]

\* the string is ''
IsEmptyStr(s) == ~s.host /\ s.path = <<>>

\* urlparse(s).path
PathOf(s) == s.path

\* str.strip('/')
RECURSIVE Strip(_)
Strip(s) ==
    IF s = <<>> THEN s
    ELSE IF s[1] = "/" THEN Strip(Tail(s))
    ELSE IF s[Len(s)] = "/" THEN Strip(SubSeq(s, 1, Len(s) - 1))
    ELSE s

\* str.split('/'): the pieces between the separators, one empty piece for ''
RECURSIVE Split(_)
Split(s) ==
    IF \E i \in 1..Len(s) : s[i] = "/"
    THEN LET i == CHOOSE j \in 1..Len(s) : s[j] = "/" /\ \A k \in 1..(j - 1) : s[k] # "/"
         IN <<SubSeq(s, 1, i - 1)>> \o Split(SubSeq(s, i + 1, Len(s)))
    ELSE <<s>>

\* str.isdigit()
IsDigit(seg) == seg # <<>> /\ \A i \in 1..Len(seg) : seg[i] = "1"

\* a segment rule without the both-numeric case
SegmentMatchesExact(u, p) == p = <<"*">> \/ p = u

\* one pair of segments: wildcard, equal, or both numeric
SegmentMatches(u, p) == p = <<"*">> \/ p = u \/ (IsDigit(u) /\ IsDigit(p))

\* _url_matches_pattern(url, pattern)
UrlMatchesPattern(url, pattern) ==
    IF IsEmptyStr(pattern) THEN FALSE
    ELSE LET url_parts == Split(Strip(PathOf(url)))
             pattern_parts == Split(Strip(PathOf(pattern)))
         IN IF Len(url_parts) # Len(pattern_parts) THEN FALSE
            ELSE \A i \in 1..Len(url_parts) : SegmentMatches(url_parts[i], pattern_parts[i])

\* _url_matches_pattern called on its own with any URL and pattern
UrlMatchCall ==
    /\ fn_call = NoFn
    /\ \E u \in PathSeqs(MaxPathLen), q \in PathSeqs(MaxPathLen), h \in BOOLEAN :
          /\ fn_call' = [op |-> "url_matches_pattern", url |-> UrlStr(TRUE, u),
                         pattern |-> UrlStr(h, q)]
          /\ fn_ret' = UrlMatchesPattern(UrlStr(TRUE, u), UrlStr(h, q))
    /\ UNCHANGED <<store_fail, interrupted, mysql_db>>
    /\ UNCHANGED <<explVars, dbVars, histVars, agentVars>>

----------------------------------------------------------------------------
(* The memory store: both backends fed the same operations *)

\* rows in the whole store
MaxStoreRows == 3

Domains == {"site.test", "other.test"}
StorePatterns == {UrlStr(TRUE, <<"/", "a">>), UrlStr(TRUE, <<"/", "1">>)}
StoreUrls == {UrlStr(TRUE, <<"/", "a">>), UrlStr(TRUE, <<"/", "1">>)}
StoreTitlePatterns == {<<"a", "b">>, <<"b">>}
StoreTitles == {<<"A">>, <<>>}
StoreKeywords == {<<"a", "b">>, <<"B">>}
StoreDescriptions == {<<"A", " ", "b">>, <<"b">>, <<"c">>}
StoreNames == {"x", "y"}

\* the tables of the SQLiteDatabase, as one record
SqliteDb ==
    [sites |-> sites, pages |-> pages, elements |-> elements, actions |-> actions,
     task_paths |-> task_paths]

StoreRows ==
    Len(sites) + Len(pages) + Len(elements) + Len(actions) + Len(task_paths)

\* a query found nothing: None
NoRow == 0

\* `if entity.id:`
Truthy(id) == id > 0

\* UPDATE tbl SET cols WHERE id=?
UpdateById(tbl, id, row, cols) ==
    [i \in 1..Len(tbl) |->
        IF i = id
        THEN [f \in DOMAIN tbl[i] |-> IF f \in cols THEN row[f] ELSE tbl[i][f]]
        ELSE tbl[i]]

\* a save that inserts whatever the id
SaveByIdAlwaysInsert(tbl, e, cols) == SaveNew(tbl, e.row)

\* save_page, save_element, save_action, save_task_path: update the row of a
\* set id, insert otherwise
SaveById(tbl, e, cols) ==
    IF Truthy(e.id) THEN UpdateById(tbl, e.id, e.row, cols) ELSE SaveNew(tbl, e.row)

\* the id of the entity returned by a save
SavedId(tbl, e) == IF Truthy(e.id) THEN e.id ELSE NewId(tbl)

\* the columns the UPDATE of each table sets
PageCols == {"url_pattern", "title_pattern"}
ElementCols == {"semantic_name"}
ActionCols == {"action_type"}
TaskPathCols == {"task_keywords"}

\* str.lower()
LowerChar(c) == CASE c = "A" -> "a" [] c = "B" -> "b" [] OTHER -> c
Lower(s) == [i \in 1..Len(s) |-> LowerChar(s[i])]

\* a in b, for strings
IsSubstring(a, b) ==
    \E i \in 0..(Len(b) - Len(a)) : \A k \in 1..Len(a) : b[i + k] = a[k]

\* the first row of a set of rows, None if there is none
FirstOf(S) == IF S = {} THEN NoRow ELSE CHOOSE i \in S : \A j \in S : i <= j

\* title and page.title_pattern and title.lower() in page.title_pattern.lower()
TitleMatches(title, title_pattern) ==
    /\ title # <<>>
    /\ title_pattern # <<>>
    /\ IsSubstring(Lower(title), Lower(title_pattern))

\* SQLiteDatabase.find_similar_page: the first row of the site that matches
\* by URL or by title
SqliteFindSimilarPage(tbl, site_id, url, title) ==
    FirstOf({i \in 1..Len(tbl) :
                /\ tbl[i].site_id = site_id
                /\ \/ UrlMatchesPattern(url, tbl[i].url_pattern)
                   \/ TitleMatches(title, tbl[i].title_pattern)})

\* MySQLDatabase.find_similar_page: the first row of the site that matches by title
MysqlFindSimilarPage(tbl, site_id, url, title) ==
    FirstOf({i \in 1..Len(tbl) :
                /\ tbl[i].site_id = site_id
                /\ TitleMatches(title, tbl[i].title_pattern)})

\* sum(1 for kw in keywords if kw in task_keywords.lower())
Score(keywords, task_keywords) ==
    Cardinality({k \in 1..Len(keywords) : IsSubstring(keywords[k], Lower(task_keywords))})

\* a comparison that lets a later row of equal score win
BeatsOrTies(score, best_score) == score >= best_score

\* if score > best_score
Beats(score, best_score) == score > best_score

\* the loop of find_task_path from row i on
RECURSIVE BestMatch(_, _, _, _, _, _)
BestMatch(tbl, site_id, keywords, i, best_match, best_score) ==
    IF i > Len(tbl) THEN IF best_score > 0 THEN best_match ELSE NoRow
    ELSE IF tbl[i].site_id = site_id
            /\ Beats(Score(keywords, tbl[i].task_keywords), best_score)
         THEN BestMatch(tbl, site_id, keywords, i + 1, i,
                        Score(keywords, tbl[i].task_keywords))
         ELSE BestMatch(tbl, site_id, keywords, i + 1, best_match, best_score)

\* find_task_path, the same in both backends
FindTaskPath(tbl, site_id, task_description) ==
    BestMatch(tbl, site_id, SplitWs(Lower(task_description)), 1, NoRow, 0)

\* what the two backends returned
Both(a, b) == [sqlite |-> a, mysql |-> b]

\* the variables no store operation touches
storeFrame ==
    <<explVars, histVars, life, use_memory, db_open, planner_set, current_site, running,
      a_pc, plan, step_idx, step, action_history, result, tasks_run, plan_call, sel,
      plan_cmds, executed_plan, paths_at_entry, store_fail, interrupted>>

\* get_or_create_site(domain) on both backends
StoreGetOrCreateSite ==
    \E d \in Domains :
       /\ (\E i \in 1..Len(sites) : sites[i].domain = d) \/ StoreRows < MaxStoreRows
       /\ sites' = GetOrCreateSite(sites, d)
       /\ mysql_db' = [mysql_db EXCEPT !.sites = GetOrCreateSite(mysql_db.sites, d)]
       /\ fn_call' = [op |-> "get_or_create_site", domain |-> d]
       /\ fn_ret' = Both(SiteIdOf(sites, d), SiteIdOf(mysql_db.sites, d))
       /\ UNCHANGED <<pages, elements, actions, logs, task_paths>>
       /\ UNCHANGED storeFrame

\* save_page(page) on both backends; the page is of a site that exists
StoreSavePage ==
    \E id \in 0..(Len(pages) + 1), s \in 1..Len(sites), u \in StorePatterns,
       ti \in StoreTitlePatterns :
       LET e == [id |-> id, row |-> [site_id |-> s, url_pattern |-> u, title_pattern |-> ti]]
       IN /\ Truthy(id) \/ StoreRows < MaxStoreRows
          /\ pages' = SaveById(pages, e, PageCols)
          /\ mysql_db' = [mysql_db EXCEPT !.pages = SaveById(mysql_db.pages, e, PageCols)]
          /\ fn_call' = [op |-> "save_page", id |-> id]
          /\ fn_ret' = Both(SavedId(pages, e), SavedId(mysql_db.pages, e))
          /\ UNCHANGED <<sites, elements, actions, logs, task_paths>>
          /\ UNCHANGED storeFrame

\* save_element(element) on both backends; the element is of a page that exists
StoreSaveElement ==
    \E id \in 0..(Len(elements) + 1), pg \in 1..Len(pages), n \in StoreNames :
       LET e == [id |-> id, row |-> [page_id |-> pg, semantic_name |-> n]]
       IN /\ Truthy(id) \/ StoreRows < MaxStoreRows
          /\ elements' = SaveById(elements, e, ElementCols)
          /\ mysql_db' = [mysql_db EXCEPT
                             !.elements = SaveById(mysql_db.elements, e, ElementCols)]
          /\ fn_call' = [op |-> "save_element", id |-> id]
          /\ fn_ret' = Both(SavedId(elements, e), SavedId(mysql_db.elements, e))
          /\ UNCHANGED <<sites, pages, actions, logs, task_paths>>
          /\ UNCHANGED storeFrame

\* save_action(action) on both backends; site and source page exist
StoreSaveAction ==
    \E id \in 0..(Len(actions) + 1), s \in 1..Len(sites), pg \in 1..Len(pages), n \in StoreNames :
       LET e == [id |-> id,
                 row |-> [site_id |-> s, source_page_id |-> pg, action_type |-> n]]
       IN /\ Truthy(id) \/ StoreRows < MaxStoreRows
          /\ actions' = SaveById(actions, e, ActionCols)
          /\ mysql_db' = [mysql_db EXCEPT
                             !.actions = SaveById(mysql_db.actions, e, ActionCols)]
          /\ fn_call' = [op |-> "save_action", id |-> id]
          /\ fn_ret' = Both(SavedId(actions, e), SavedId(mysql_db.actions, e))
          /\ UNCHANGED <<sites, pages, elements, logs, task_paths>>
          /\ UNCHANGED storeFrame

\* save_task_path(task_path) on both backends; the path is of a site that exists
StoreSaveTaskPath ==
    \E id \in 0..(Len(task_paths) + 1), s \in 1..Len(sites), kw \in StoreKeywords :
       LET e == [id |-> id, row |-> [site_id |-> s, task_keywords |-> kw]]
       IN /\ Truthy(id) \/ StoreRows < MaxStoreRows
          /\ task_paths' = SaveById(task_paths, e, TaskPathCols)
          /\ mysql_db' = [mysql_db EXCEPT
                             !.task_paths = SaveById(mysql_db.task_paths, e, TaskPathCols)]
          /\ fn_call' = [op |-> "save_task_path", id |-> id]
          /\ fn_ret' = Both(SavedId(task_paths, e), SavedId(mysql_db.task_paths, e))
          /\ UNCHANGED <<sites, pages, elements, actions, logs>>
          /\ UNCHANGED storeFrame

\* find_similar_page(site_id, url, title) on both backends
StoreFindSimilarPage ==
    \E s \in 1..Cardinality(Domains), u \in StoreUrls, ti \in StoreTitles :
       /\ fn_call' = [op |-> "find_similar_page", site_id |-> s, url |-> u, title |-> ti]
       /\ fn_ret' = Both(SqliteFindSimilarPage(pages, s, u, ti),
                         MysqlFindSimilarPage(mysql_db.pages, s, u, ti))
       /\ UNCHANGED <<dbVars, task_paths, mysql_db>>
       /\ UNCHANGED storeFrame

\* find_task_path(site_id, task_description) on both backends
StoreFindTaskPath ==
    \E s \in 1..Cardinality(Domains), d \in StoreDescriptions :
       /\ fn_call' = [op |-> "find_task_path", site_id |-> s, task_description |-> d]
       /\ fn_ret' = Both(FindTaskPath(task_paths, s, d), FindTaskPath(mysql_db.task_paths, s, d))
       /\ UNCHANGED <<dbVars, task_paths, mysql_db>>
       /\ UNCHANGED storeFrame

\* a log save that updates the row of a set id, like save_page
SaveLogById(tbl, e) == SaveById(tbl, e, {"session_id"})

\* save_exploration_log: INSERT, whatever the id of the log
SaveLog(tbl, e) == SaveNew(tbl, e.row)

\* save_exploration_log(log) on both backends; the log is of a site that
\* exists; log.id becomes lastrowid
StoreSaveExplorationLog ==
    \E id \in 0..(Len(logs) + 1), s \in 1..Len(sites),
       sess \in {SessionId, EarlierSessionId} :
       LET e == [id |-> id, row |-> [site_id |-> s, session_id |-> sess]]
       IN /\ Len(logs) < MaxStoreRows
          /\ logs' = SaveLog(logs, e)
          /\ mysql_db' = [mysql_db EXCEPT !.logs = SaveLog(mysql_db.logs, e)]
          /\ fn_call' = [op |-> "save_exploration_log", id |-> id]
          /\ fn_ret' = Both(NewId(logs), NewId(mysql_db.logs))
          /\ UNCHANGED <<sites, pages, elements, actions, task_paths>>
          /\ UNCHANGED storeFrame

\* the store's site and log operations driven on their own
NextStoreLog ==
    \/ StoreGetOrCreateSite
    \/ StoreSaveExplorationLog

NextStore ==
    \/ StoreGetOrCreateSite
    \/ StoreSavePage
    \/ StoreSaveElement
    \/ StoreSaveAction
    \/ StoreSaveTaskPath
    \/ StoreFindSimilarPage
    \/ StoreFindTaskPath

----------------------------------------------------------------------------
(* Specifications *)

Init == ExplorerInit /\ AgentInit /\ AuxInit

Spec == Init /\ [][Next]_vars

\* every browser and model call returns: the loop keeps taking its next step
FairSpec == Spec /\ WF_vars(Next)

NextCollect == ExploreSiteStart \/ CollectLong

SpecCollect == Init /\ [][NextCollect]_vars

SpecAgent == Init /\ [][NextAgent]_vars

\* the exploration with a stop() that may arrive during the drain loop
NextCancel == Next \/ ExploreInterrupt

SpecCancel == Init /\ [][NextCancel]_vars

\* the exploration when every classification of a page fails
SpecDegrade == Init /\ [][NextDegrade]_vars

\* the exploration and the dismissal of a modal with every page behaviour
SpecModal == Init /\ [][NextModal]_vars

\* the item an earlier exploration of the site found on the start page
EarlierItem == MakeItem(EReports, 1, 1, 1, StartUrl)

\* the log an earlier exploration left in the store
EarlierLogs ==
    <<[LogRow(EarlierItem, 1, 2, FALSE) EXCEPT !.session_id = EarlierSessionId]>>

\* a process started on the store an earlier exploration of the site left:
\* the site, the start page and the page its one item led back to, the
\* item's element, the activation and its log row
StoreLogged ==
    /\ pc = "init"
    /\ cur_url = StartUrl
    /\ visited_urls = {}
    /\ visited_items = {}
    /\ pending_items = <<>>
    /\ explored_count = 0
    /\ item = NoItem
    /\ sites = <<[domain |-> SiteDomain]>>
    /\ pages = <<PageRow(1, NormalizeUrl(StartUrl), FALSE, StartUrl, ListPageInfo),
                 PageRow(1, NormalizeUrl(StartUrl), FALSE, Url("/", "t=1", ""), ListPageInfo)>>
    /\ elements = <<ElementRow(EReports, 1, 1)>>
    /\ actions = <<ActionRow(EarlierItem, 1, 2)>>
    /\ logs = EarlierLogs
    /\ clicks = <<>>
    /\ click_failed = FALSE
    /\ first_resp = <<>>
    /\ post_promoted = 0
    /\ last_pass = NoPass
    /\ iter_trace = <<>>
    /\ activated = 0

InitLogged == StoreLogged /\ AgentInit /\ AuxInit

\* the task path an earlier session recorded for the site
EarlierPaths == <<TaskPathRow(1, PlanSteps(1))>>

\* an agent started on that store, which also holds the earlier task path
InitRecorded == StoreLogged /\ AgentInitOn(EarlierPaths) /\ AuxInit

\* the process is the exploration command: it runs explore_site and no task
ExploreCommand ==
    /\ life = "new" /\ tasks_run = 0 /\ current_site = 0
    /\ Next

\* the process is the agent: it runs tasks and no exploration
RunCommand ==
    /\ pc = "init"
    /\ NextAgent

NextLog == ExploreCommand \/ RunCommand

\* an exploration or an agent on a store that holds an earlier exploration
SpecLog == InitLogged /\ [][NextLog]_vars

\* an agent on a store that holds the task path of an earlier session
SpecRecord == InitRecorded /\ [][NextAgent]_vars

\* the log table of the store driven on its own, both backends side by side
SpecStoreLog == Init /\ [][NextStoreLog]_vars

\* the exploration of a site with untagged and unmapped elements
SpecElements == Init /\ [][NextElements]_vars

\* the executor called on its own
NextExecute == ExecuteCall

SpecExecute == Init /\ [][NextExecute]_vars

\* the URL matcher called on its own
NextMatch == UrlMatchCall

SpecMatch == Init /\ [][NextMatch]_vars

\* the store driven on its own, both backends side by side
SpecStore == Init /\ [][NextStore]_vars

----------------------------------------------------------------------------
(* Properties of the exploration engine *)

\* the rank of an item's kind: nav, then CRUD create, read/update, delete,
\* then the plain actions
KindRank(x) ==
    IF x.item_type = "nav" THEN 4
    ELSE IF x.item_type = "crud" /\ x.crud_type = "create" THEN 3
    ELSE IF x.item_type = "crud" /\ x.crud_type \in {"read", "update"} THEN 2
    ELSE IF x.item_type = "crud" /\ x.crud_type = "delete" THEN 1
    ELSE 0

InKindOrder(s) ==
    \A i, j \in 1..Len(s) : i < j => KindRank(s[i]) >= KindRank(s[j])

\* C1: after the sort of the collection pass the queue is in kind order: every
\* nav item before every CRUD create item, before every read/update item,
\* before every delete item, before every plain action, whatever the raw
\* priorities are.
C1_CollectSortInKindOrder ==
    (pc = "exploring" /\ last_pass.kind = "initial") => InKindOrder(pending_items)

\* C2: at every pop of the drain loop the item popped (the head of the queue)
\* has the highest kind rank of all the items queued at that moment.
C2_DrainInKindOrder ==
    (pc = "exploring" /\ LoopCondition) =>
        \A i \in 1..Len(pending_items) :
            KindRank(Head(pending_items)) >= KindRank(pending_items[i])

\* the start page showed exactly the nav item Reports and the create item
\* New Task, in either order, and no activation failed
ReportsNewTaskSite ==
    /\ first_resp \in {<<EReports, ENewTask>>, <<ENewTask, EReports>>}
    /\ ~click_failed

ReportsNewTaskOutcome ==
    /\ \A i, j \in 1..Len(actions) :
          (actions[i].notes.name = "Reports" /\ actions[i].source_page_id = 1
           /\ actions[j].notes.name = "New Task" /\ actions[j].source_page_id = 1)
          => i < j
    /\ Len(pages) - 1 <= 2
    /\ visited_items = {ItemKey(1, "Reports"), ItemKey(1, "New Task")}

C4_DrainTerminatesWithinBudget ==
    /\ <>(pc = "done")
    /\ [](explored_count <= MaxItems /\ Len(clicks) <= explored_count)
    /\ [](pc = "done" => (pending_items = <<>> \/ explored_count = MaxItems))

\* the budget ends a run in which every activation found a new item
C4_Witness ==
    /\ pc = "done"
    /\ explored_count = MaxItems
    /\ pending_items # <<>>
    /\ post_promoted >= MaxItems

NoDuplicates(s) == \A i, j \in 1..Len(s) : s[i] = s[j] => i = j

\* C5: no item key is activated twice; a key is in visited_items before its
\* activation is attempted; an iteration that pops an item whose key is
\* visited changes neither the URL, the click history nor the count.
C5_NoKeyActivatedTwice ==
    /\ [](NoDuplicates(clicks))
    /\ [](pc = "activating" => KeyOfItem(item) \in visited_items)
    /\ [][clicks' # clicks =>
            /\ pc = "activating"
            /\ clicks' = Append(clicks, KeyOfItem(item))
            /\ KeyOfItem(item) \in visited_items]_vars
    /\ [][(pc = "exploring" /\ LoopCondition
           /\ KeyOfItem(Head(pending_items)) \in visited_items) =>
            /\ cur_url' = cur_url
            /\ clicks' = clicks
            /\ explored_count' = explored_count
            /\ pc' = "exploring"]_vars

\* a key queued twice was activated once and skipped once
C5_Witness ==
    /\ pc = "done"
    /\ first_resp = <<EReports, EReports>>
    /\ clicks = <<ItemKey(1, "Reports")>>
    /\ explored_count = 1

\* the collection rule for element e of a pass on page page_id
Resolvable(e) == e.tag_id.kind \in {"int", "str"} /\ e.tag_id.n \in MappedTags

RulePromotes(e, page_id, visited) ==
    /\ (e.is_nav_menu \/ e.is_crud_action \/ e.explore_priority >= 7)
    /\ Resolvable(e)
    /\ ItemKey(page_id, e.semantic_name) \notin visited

ItemsOfPage(page_id) == SelectSeq(pending_items, LAMBDA x : x.source_page_id = page_id)

\* C6: right after a collection pass the items queued for its page are exactly
\* the elements that meet the rule: one item per such element in the first
\* pass, one item per such name in a post-activation pass.
C6_CollectionRule ==
    last_pass.kind # "none" =>
        LET pid == last_pass.page_id
            queued == ItemsOfPage(pid)
            meet == SelectSeq(last_pass.resp,
                              LAMBDA e : RulePromotes(e, pid, last_pass.visited))
            names(s) == {s[i].semantic_name : i \in 1..Len(s)}
        IN /\ {queued[i].name : i \in 1..Len(queued)} = names(meet)
           /\ last_pass.kind = "initial" => Len(queued) = Len(meet)
           /\ last_pass.kind = "post" => Len(queued) = Cardinality(names(meet))

----------------------------------------------------------------------------
(* Properties of the task executor loop and the planner *)

\* the plan the planner returned says can_plan with a confidence above 0.6
\* (60 hundredths)
PlanAboveThreshold ==
    /\ plan # NoPlan
    /\ "can_plan" \in DOMAIN plan
    /\ plan.can_plan
    /\ "confidence" \in DOMAIN plan
    /\ plan.confidence > 60

\* C7: once a task has chosen its executor, it chose planned execution if and
\* only if memory was enabled, a current site existed and the planner's plan
\* says can_plan with a confidence strictly above 0.6; in every other case it
\* chose live execution, and the executor chosen is the one that runs.  A
\* can_plan plan of confidence 0.55 or 0.60 is not selected, one of 0.61 is.
C7_ExecutorSelection ==
    /\ [](sel.mode # "none" =>
            /\ sel.mode \in {"plan", "live"}
            /\ (sel.mode = "plan") <=>
                  (sel.use_memory /\ sel.site # 0 /\ PlanAboveThreshold)
            /\ (plan # NoPlan /\ Get(plan, "can_plan", FALSE)
                  /\ Get(plan, "confidence", 0) \in {55, 60}) => sel.mode = "live"
            /\ (plan # NoPlan /\ Get(plan, "can_plan", FALSE)
                  /\ Get(plan, "confidence", 0) = 61) => sel.mode = "plan"
            /\ a_pc = "plan" => sel.mode = "plan")
    /\ [][sel' # sel /\ sel'.mode # "none" => a_pc' = sel'.mode]_vars

\* a can_plan plan of confidence exactly 0.6 was obtained and live execution runs
C7_Witness ==
    /\ sel.mode = "live"
    /\ a_pc = "live"
    /\ plan # NoPlan
    /\ Get(plan, "can_plan", FALSE)
    /\ Get(plan, "confidence", 0) = 60
    /\ step > 0

\* the model's answer for a plan step is that the target cannot be found
SaysCannotFind(cmd) == cmd = <<"FAIL">>

\* the task went into live execution
LiveEntered ==
    sel.mode = "live" \/ \E k \in 1..Len(plan_cmds) : SaysCannotFind(plan_cmds[k])

\* C8: when the model reports for plan step k that it cannot find the target,
\* no plan step k or later is ever handed to the executor, no later plan step
\* is asked for, the task never is in planned execution again, and what the
\* task returns is what live execution returns.
C8_AllOrNothingFallback ==
    \A k \in 1..Len(plan_cmds) :
       SaysCannotFind(plan_cmds[k]) =>
          /\ k = Len(plan_cmds)
          /\ \A i \in 1..Len(executed_plan) : executed_plan[i] < k
          /\ a_pc \in {"live", "idle"}
          /\ a_pc = "idle" =>
                \/ result = Result("max_steps", MaxSteps)
                \/ /\ result = Result("live_done", Len(action_history))
                   /\ Len(action_history) > 0
                   /\ HasWord(action_history[Len(action_history)].action, "DONE")

\* plan step 1 was executed, step 2 could not be resolved, and the task ended
\* in live execution with DONE
C8_Witness ==
    /\ Len(plan_cmds) = 2
    /\ SaysCannotFind(plan_cmds[2])
    /\ executed_plan = <<1>>
    /\ a_pc = "idle"
    /\ result.kind = "live_done"
    /\ result.steps = 2

\* a task has ended whose live execution saw no step signal DONE
LiveEndedWithoutDone ==
    /\ a_pc = "idle"
    /\ LiveEntered
    /\ result.kind # "raised"
    /\ \A i \in 1..Len(action_history) : ~HasWord(action_history[i].action, "DONE")

\* exactly 20 steps, the max-steps result, no TaskPath written by the task
TwentyStepsThenMaxSteps ==
    /\ step = 20
    /\ Len(action_history) = 20
    /\ result = Result("max_steps", 20)
    /\ Len(task_paths) = paths_at_entry

\* C9 as stated: a live-execution task in which no step signals DONE executes
\* exactly 20 steps, ends with the max-steps result and writes no TaskPath.
C9_LiveWithoutDoneAsStated == LiveEndedWithoutDone => TwentyStepsThenMaxSteps

\* C9: a live-execution task in which no step signals DONE and during which
\* the agent is not stopped executes exactly 20 steps, then ends with the
\* max-steps result; it does not raise, writes no TaskPath, and once ended it
\* takes no further step until the next task is begun.
C9_LiveWithoutDoneUnstopped ==
    /\ [](LiveEndedWithoutDone /\ running => TwentyStepsThenMaxSteps)
    /\ [][a_pc = "idle" /\ result.kind = "max_steps" /\ tasks_run' = tasks_run
            => a_pc' = "idle" /\ step' = step /\ action_history' = action_history
               /\ result' = result /\ task_paths' = task_paths]_vars

\* an unstopped live run that came to its 20th step without DONE
C9_Witness ==
    /\ LiveEndedWithoutDone
    /\ running
    /\ step = 20
    /\ result.kind = "max_steps"

\* a token string that is one well-formed JSON object
IsObject(s) ==
    /\ Len(s) >= 2
    /\ s[1] = "{"
    /\ s[Len(s)] = "}"
    /\ \A i \in 1..Len(s) : s[i] # "prose"
    /\ \A i \in 1..(Len(s) - 1) :
          Cardinality({k \in 1..i : s[k] = "{"}) > Cardinality({k \in 1..i : s[k] = "}"})
    /\ Cardinality({k \in 1..Len(s) : s[k] = "{"})
          = Cardinality({k \in 1..Len(s) : s[k] = "}"})

\* the model call failed, or its response is empty, or no part of the
\* response is a well-formed JSON object
NothingToParse(call) ==
    \/ call.kind = "raise"
    \/ call.toks = <<>>
    \/ ~\E i, j \in 1..Len(call.toks) : i < j /\ IsObject(SubSeq(call.toks, i, j))

\* the canonical cannot-plan result
IsCannotPlan(p) ==
    /\ DOMAIN p = {"can_plan", "confidence", "plan", "unknown_steps"}
    /\ p.can_plan = FALSE
    /\ p.confidence = 0
    /\ p.plan = <<>>
    /\ p.unknown_steps = <<"unparseable">>

\* C10: when the planner's model call fails, or the response is empty, holds
\* no JSON object or only malformed JSON, plan_task does not raise: it returns
\* the canonical cannot-plan result (can_plan false, confidence 0, no steps,
\* the one unparseable entry), and the task goes on in live execution.
C10_PlanTaskNeverRaises ==
    [][a_pc = "planning" /\ NothingToParse(plan_call) /\ a_pc' # "planning"
         => /\ IsCannotPlan(plan')
            /\ a_pc' = "live"
            /\ sel'.mode = "live"
            /\ result' = result
            /\ task_paths' = task_paths]_vars

\* the planner was asked, returned the canonical result, and live execution runs
C10_Witness ==
    /\ IsCannotPlan(plan)
    /\ sel.mode = "live"
    /\ sel.use_memory
    /\ sel.site # 0
    /\ a_pc = "live"
    /\ step > 0

----------------------------------------------------------------------------
(* Properties of the action executor *)

\* a WAIT command: the verb alone, or the verb and a number of seconds
IsWaitCommand(cmd) ==
    \/ cmd = <<"WAIT">>
    \/ Len(cmd) = 2 /\ cmd[1] = "WAIT" /\ cmd[2] \in DigitToks

\* C11: execute on a WAIT command waits min(n, 30) seconds when a number n is
\* given and exactly 2 seconds when none is given (WAIT 999 waits 30, WAIT 5
\* waits 5), makes no browser call and returns done = false.
C11_WaitClamped ==
    (fn_call.op = "execute" /\ IsWaitCommand(fn_call.cmd)) =>
       /\ fn_ret.done = FALSE
       /\ fn_ret.browser = "none"
       /\ fn_call.cmd = <<"WAIT">> => fn_ret.seconds = 2
       /\ fn_call.cmd = <<"WAIT", "5">> => fn_ret.seconds = 5
       /\ fn_call.cmd = <<"WAIT", "999">> => fn_ret.seconds = 30
       /\ Len(fn_call.cmd) = 2 =>
             /\ fn_ret.seconds <= 30
             /\ fn_ret.seconds <= NumVal(fn_call.cmd[2])
             /\ fn_ret.seconds \in {30, NumVal(fn_call.cmd[2])}

\* WAIT 999 was executed and slept 30 seconds
C11_Witness ==
    /\ fn_call.op = "execute"
    /\ fn_call.cmd = <<"WAIT", "999">>
    /\ fn_ret.seconds = 30
    /\ fn_ret.done = FALSE

\* a command that holds none of the seven verbs
Unrecognized(cmd) ==
    \A i \in 1..Len(cmd) :
       cmd[i] \notin {"CLICK", "TYPE", "SCROLL", "GOTO", "WAIT", "PAUSE", "DONE"}

\* C12: a command of the model that matches none of the seven verbs does not
\* advance the task: the history of a live run records no such command, and
\* the steps counted against the budget are the recognized commands alone.
C12_UnparsedNotCounted ==
    /\ \A i \in 1..Len(action_history) : ~Unrecognized(action_history[i].action)
    /\ step = Cardinality({i \in 1..Len(action_history) :
                             ~Unrecognized(action_history[i].action)})

----------------------------------------------------------------------------
(* Properties of the memory store *)

\* the paths of URL and pattern have the same number of segments and every
\* pair of segments is equal, or the pattern's is the wildcard, or both are numeric
SegmentsAgree(url, pattern) ==
    LET us == Split(Strip(url.path))
        ps == Split(Strip(pattern.path))
    IN /\ Len(us) = Len(ps)
       /\ \A i \in 1..Len(us) :
             \/ us[i] = ps[i]
             \/ ps[i] = <<"*">>
             \/ /\ us[i] # <<>> /\ \A k \in 1..Len(us[i]) : us[i][k] = "1"
                /\ ps[i] # <<>> /\ \A k \in 1..Len(ps[i]) : ps[i][k] = "1"

\* C16 as stated: for every URL and pattern the match is true exactly when
\* the segment counts are equal and every pair of segments agrees.
C16_UrlMatchAsStated ==
    fn_call.op = "url_matches_pattern" =>
       (fn_ret <=> SegmentsAgree(fn_call.url, fn_call.pattern))

\* C16: for every URL and every pattern that is not the empty string the
\* match is true exactly when the segment counts are equal and every pair of
\* segments is equal, or has the wildcard as pattern, or is numeric on both
\* sides; the empty string as pattern matches nothing.
C16_UrlMatchNonEmptyPattern ==
    fn_call.op = "url_matches_pattern" =>
       /\ ~IsEmptyStr(fn_call.pattern) =>
             (fn_ret <=> SegmentsAgree(fn_call.url, fn_call.pattern))
       /\ IsEmptyStr(fn_call.pattern) => ~fn_ret

\* two different numeric segments were matched
C16_Witness ==
    /\ fn_call.op = "url_matches_pattern"
    /\ fn_call.url.path = <<"/", "1", "1">>
    /\ fn_call.pattern.path = <<"/", "1">>
    /\ fn_ret = TRUE

\* no two rows of a sites table have the same domain
OneRowPerDomain(tbl) ==
    \A i, j \in 1..Len(tbl) : tbl[i].domain = tbl[j].domain => i = j

\* the rows a table had are still there, unchanged, under the same ids
RowsKept(old, new) ==
    /\ Len(old) <= Len(new)
    /\ \A i \in 1..Len(old) : new[i] = old[i]

\* a call for domain d took the sites table from old to new and returned id:
\* the id is that of the row of d, a known domain adds no row, a new one adds one
SiteCallIdempotent(old, new, d, id) ==
    /\ id \in 1..Len(new)
    /\ new[id].domain = d
    /\ IF \E i \in 1..Len(old) : old[i].domain = d
       THEN new = old
       ELSE Len(new) = Len(old) + 1

\* C13: get_or_create_site is idempotent in both backends: there is never more
\* than one Site row per domain, rows keep their ids, every call returns the
\* id of the one row of its domain, the first call for a domain adds exactly
\* one row and later calls add none.
C13_SiteIdempotent ==
    /\ [](OneRowPerDomain(sites) /\ OneRowPerDomain(mysql_db.sites))
    /\ [][/\ RowsKept(sites, sites')
          /\ RowsKept(mysql_db.sites, mysql_db'.sites)
          /\ fn_call'.op = "get_or_create_site" =>
                /\ SiteCallIdempotent(sites, sites', fn_call'.domain, fn_ret'.sqlite)
                /\ SiteCallIdempotent(mysql_db.sites, mysql_db'.sites, fn_call'.domain,
                                      fn_ret'.mysql)]_vars

\* a second domain exists and a later call for the first domain got its row back
C13_Witness ==
    /\ fn_call.op = "get_or_create_site"
    /\ Len(sites) = 2
    /\ fn_call.domain = sites[1].domain
    /\ fn_ret.sqlite = 1

\* a save of an entity with this id took a table from old to new and returned
\* ret: an unset id adds one row under a fresh id and keeps all others, a set
\* id keeps the row count and every row but its own
InsertOrUpdateById(old, new, id, ret) ==
    IF id = 0
    THEN /\ Len(new) = Len(old) + 1
         /\ RowsKept(old, new)
         /\ ret = Len(new)
         /\ ret \notin 1..Len(old)
    ELSE /\ Len(new) = Len(old)
         /\ \A i \in 1..Len(old) : i # id => new[i] = old[i]
         /\ ret = id

\* the table a save operation writes, in a store given as a record
SavedTable(db, op) ==
    CASE op = "save_page" -> db.pages
      [] op = "save_element" -> db.elements
      [] op = "save_action" -> db.actions
      [] op = "save_task_path" -> db.task_paths

\* the tables of the SQLiteDatabase after a step
SqliteDbAfter ==
    [sites |-> sites', pages |-> pages', elements |-> elements', actions |-> actions',
     task_paths |-> task_paths']

SaveOps == {"save_page", "save_element", "save_action", "save_task_path"}

\* C14: save_page, save_element, save_action and save_task_path insert or
\* update by id: with the id unset they add exactly one row under an id no
\* row of the table has and change no other row; with the id set they change
\* at most the row of that id and keep the row count; no other table changes.
C14_InsertOrUpdateById ==
    [][fn_call'.op \in SaveOps =>
          /\ InsertOrUpdateById(SavedTable(SqliteDb, fn_call'.op),
                                SavedTable(SqliteDbAfter, fn_call'.op),
                                fn_call'.id, fn_ret'.sqlite)
          /\ InsertOrUpdateById(SavedTable(mysql_db, fn_call'.op),
                                SavedTable(mysql_db', fn_call'.op),
                                fn_call'.id, fn_ret'.mysql)
          /\ \A op \in SaveOps \ {fn_call'.op} :
                SavedTable(SqliteDbAfter, op) = SavedTable(SqliteDb, op)
          /\ sites' = sites]_vars

\* two pages of the same content were saved with the id unset: two rows
C14_Witness ==
    /\ fn_call.op = "save_page"
    /\ fn_call.id = 0
    /\ Len(pages) = 2
    /\ pages[1] = pages[2]
    /\ fn_ret.sqlite = 2

\* the pages of a site that match a URL, and those that match a title
UrlMatchRows(tbl, site_id, url) ==
    {i \in 1..Len(tbl) : tbl[i].site_id = site_id /\ UrlMatchesPattern(url, tbl[i].url_pattern)}
TitleMatchRows(tbl, site_id, title) ==
    {i \in 1..Len(tbl) : tbl[i].site_id = site_id /\ TitleMatches(title, tbl[i].title_pattern)}

\* the least member of a non-empty set of row ids
Least(S) == CHOOSE i \in S : \A j \in S : i <= j

\* C15: find_similar_page returns the first page of the site that matches by
\* URL; only when no page of the site matches by URL, the first page whose
\* title_pattern contains the title; none when neither matches; never a page
\* of another site.
C15_UrlMatchBeforeTitle ==
    fn_call.op = "find_similar_page" =>
       LET byUrl == UrlMatchRows(pages, fn_call.site_id, fn_call.url)
           byTitle == TitleMatchRows(pages, fn_call.site_id, fn_call.title)
       IN fn_ret.sqlite = IF byUrl # {} THEN Least(byUrl)
                          ELSE IF byTitle # {} THEN Least(byTitle)
                          ELSE 0

\* the number of tokens that occur in a string
Occurring(tokens, str) ==
    Cardinality({k \in 1..Len(tokens) : IsSubstring(tokens[k], str)})

\* the scores of the rows of a task_paths table for a description, the
\* keywords taken as they are stored
ScoresAsStored(tbl, task_description) ==
    [i \in 1..Len(tbl) |-> Occurring(SplitWs(Lower(task_description)), tbl[i].task_keywords)]

\* the same with the stored keywords lower-cased
ScoresLowered(tbl, task_description) ==
    [i \in 1..Len(tbl) |->
        Occurring(SplitWs(Lower(task_description)), Lower(tbl[i].task_keywords))]

\* none if every row of the site scores 0, else the first of the rows of the
\* site with the highest score
FirstOfBest(tbl, site_id, sc) ==
    LET mine == {i \in 1..Len(tbl) : tbl[i].site_id = site_id}
    IN IF \A i \in mine : sc[i] = 0 THEN 0
       ELSE Least({i \in mine : \A j \in mine : sc[j] <= sc[i]})

\* C17 as stated: the score of a path is the number of lower-cased tokens of
\* the description that are substrings of the task_keywords as stored.
C17_ScoreOnStoredKeywords ==
    fn_call.op = "find_task_path" =>
       fn_ret.sqlite = FirstOfBest(task_paths, fn_call.site_id,
                                   ScoresAsStored(task_paths, fn_call.task_description))

\* C17: find_task_path scores each TaskPath of the site by the number of
\* lower-cased whitespace tokens of the description that are substrings of
\* its lower-cased task_keywords; it returns none when every path scores 0,
\* otherwise the first in store order of the paths with the highest score,
\* and never a path of another site; so in both backends.
C17_ScoreOnLoweredKeywords ==
    fn_call.op = "find_task_path" =>
       /\ fn_ret.sqlite = FirstOfBest(task_paths, fn_call.site_id,
                                      ScoresLowered(task_paths, fn_call.task_description))
       /\ fn_ret.mysql = FirstOfBest(mysql_db.task_paths, fn_call.site_id,
                                     ScoresLowered(mysql_db.task_paths,
                                                   fn_call.task_description))

\* two paths of the site tie on a positive score and the first was returned
C17_Witness ==
    /\ fn_call.op = "find_task_path"
    /\ Len(task_paths) = 2
    /\ task_paths[1].site_id = fn_call.site_id
    /\ task_paths[2].site_id = fn_call.site_id
    /\ task_paths[1].task_keywords # task_paths[2].task_keywords
    /\ ScoresLowered(task_paths, fn_call.task_description) = <<1, 1>>
    /\ fn_ret.sqlite = 1

C19_TaskPathFailurePropagates ==
    (a_pc = "idle" /\ store_fail) => result.kind = "raised"

\* C20: once an interruption has been requested and the drain loop is at a
\* step boundary, no further item is popped.
C20_NoPopAfterInterruption ==
    [][(interrupted /\ pc = "exploring") =>
          /\ pending_items' = pending_items
          /\ explored_count' = explored_count]_vars

----------------------------------------------------------------------------
(* Properties of the activation and of what it writes *)

\* this step is the rest of an iteration whose click failed
ClickFailedStep ==
    /\ Len(clicks') = Len(clicks) + 1
    /\ activated' = activated

\* C21: a failed click is not fatal: the iteration writes no Page, Action,
\* ExplorationLog or Element row, runs no analysis, leaves pending_items and
\* visited_urls as they were, keeps the item's key in visited_items, and the
\* drain loop is back at its head, not raised.
C21_ClickFailureNonFatal ==
    [][ClickFailedStep =>
          /\ pages' = pages /\ actions' = actions /\ logs' = logs
          /\ elements' = elements
          /\ pending_items' = pending_items
          /\ visited_urls' = visited_urls
          /\ visited_items' = visited_items
          /\ KeyOfItem(item) \in visited_items'
          /\ iter_trace'[Len(iter_trace')] = "click_failed"
          /\ \A i \in 1..Len(iter_trace') : iter_trace'[i] \in {"goto", "click_failed"}
          /\ pc' = "exploring"]_vars

\* a click failed and the loop went on to activate the next item
C21_Witness ==
    /\ click_failed
    /\ Len(clicks) = 2
    /\ activated = 1
    /\ iter_trace # <<>> /\ iter_trace[1] = "click"
    /\ pc = "exploring"

\* C22: when the model's classification of a page is unparseable, empty, or
\* the call raises, analyze_page returns the default record, a Page row of
\* type unknown with no key features is still written, and the exploration
\* goes on at the head of the drain loop without raising.
C22_AnalysisFailureDegrades ==
    [][(fn_call'.op = "analyze_page" /\ (pages' # pages \/ pc' = "raised")) =>
          /\ fn_ret' = [raised |-> FALSE, value |-> DefaultPageInfo]
          /\ Len(pages') = Len(pages) + 1
          /\ pages'[Len(pages')].page_type = "unknown"
          /\ pages'[Len(pages')].key_features = <<>>
          /\ pc' = "exploring"]_vars

\* the classification of the page an activation reached failed, the page was
\* stored as unknown, and the next item was popped
C22_Witness ==
    /\ fn_call.op = "analyze_page"
    /\ Len(pages) = 2
    /\ pages[2].page_type = "unknown"
    /\ activated = 1
    /\ pc = "activating"


\* position of the first occurrence of x in the trace, 0 when absent
TracePos(tr, x) ==
    IF \E i \in 1..Len(tr) : tr[i] = x
    THEN CHOOSE i \in 1..Len(tr) : tr[i] = x /\ \A j \in 1..(i - 1) : tr[j] # x
    ELSE 0

\* C23: a successful activation appends exactly one Page row, then exactly
\* one Action row (source page and element of the activated item, target the
\* Page row just written, type click), then exactly one ExplorationLog row,
\* all before any element of the result is collected; and whenever the drain
\* loop is at its head the Action and ExplorationLog tables each hold as many
\* rows as there were successful activations.
C23_ActivationWritesInOrder ==
    /\ [](pc = "exploring" => Len(actions) = activated /\ Len(logs) = activated)
    /\ [][activated' = activated + 1 =>
            /\ Len(pages') = Len(pages) + 1
            /\ SubSeq(pages', 1, Len(pages)) = pages
            /\ actions' = Append(actions, actions'[Len(actions')])
            /\ logs' = Append(logs, logs'[Len(logs')])
            /\ actions'[Len(actions')].source_page_id = item.source_page_id
            /\ actions'[Len(actions')].element_id = item.element_id
            /\ actions'[Len(actions')].target_page_id = Len(pages')
            /\ actions'[Len(actions')].action_type = "click"
            /\ logs'[Len(logs')].page_id = Len(pages')
            /\ TracePos(iter_trace', "save_page") > 0
            /\ TracePos(iter_trace', "save_page") < TracePos(iter_trace', "save_action")
            /\ TracePos(iter_trace', "save_action")
                  < TracePos(iter_trace', "save_exploration_log")
            /\ (TracePos(iter_trace', "collect") > 0 =>
                  TracePos(iter_trace', "save_exploration_log")
                    < TracePos(iter_trace', "collect"))]_vars

\* two activations succeeded, the second from a page other than the start
\* page, and its result was collected
C23_Witness ==
    /\ activated = 2
    /\ Len(actions) = 2
    /\ actions[2].source_page_id # actions[2].target_page_id
    /\ actions[2].source_page_id # 1
    /\ TracePos(iter_trace, "collect") > 0
    /\ pc = "exploring"


\* the text ends with "#modal"
CarriesModalSuffix(pattern) == Len(pattern) > 0 /\ pattern[Len(pattern)] = "#modal"

\* C24: the Page row an activation writes has the normalized current URL
\* followed by "#modal" as its url_pattern exactly when a modal was detected
\* after the click; the row of a plain navigation does not end in "#modal",
\* and neither does the row of the start page.
C24_ModalSuffixIffModal ==
    [][pages' # pages /\ pc \in {"collecting", "activating"} =>
          LET row == pages'[Len(pages')]
              url_key == NormalizeUrl(cur_url')
          IN IF pc = "collecting"
             THEN ~CarriesModalSuffix(row.url_pattern)
             ELSE /\ logs'[Len(logs')].result <=> row.url_pattern = url_key \o <<"#modal">>
                  /\ logs'[Len(logs')].result <=> CarriesModalSuffix(row.url_pattern)]_vars

\* two Page rows of one exploration with the same url_pattern ending in
\* "#modal", one written for a modal over the start page and one for a plain
\* navigation
C24_Collision ==
    /\ Len(pages) = 3 /\ Len(logs) = 2
    /\ pages[2].url_pattern = pages[3].url_pattern
    /\ CarriesModalSuffix(pages[2].url_pattern)
    /\ logs[1].result # logs[2].result


\* C25: after a successful activation the result is collected exactly when
\* its normalized URL was not in visited_urls before or a modal was detected;
\* for an already visited URL without a modal the activation leaves
\* pending_items and the Element table as they were and adds only one Page,
\* one Action and one ExplorationLog row.
C25_CollectIffNewOrModal ==
    [][activated' = activated + 1 =>
          LET is_new_page == NormalizeUrl(cur_url') \notin visited_urls
              has_modal == logs'[Len(logs')].result
              collected == TracePos(iter_trace', "collect") > 0
          IN /\ collected <=> (is_new_page \/ has_modal)
             /\ collected <=> last_pass'.kind = "post"
             /\ ~(is_new_page \/ has_modal) =>
                   /\ pending_items' = pending_items
                   /\ elements' = elements
                   /\ Len(pages') = Len(pages) + 1
                   /\ Len(actions') = Len(actions) + 1
                   /\ Len(logs') = Len(logs) + 1]_vars

\* an activation came back to the start page without a modal and nothing
\* was collected, after an earlier one whose modal over the start page was
\* collected although the URL had been visited
C25_Witness ==
    /\ activated = 2
    /\ logs[1].result /\ ~logs[2].result
    /\ pages[2].url_pattern = NormalizeUrl(StartUrl) \o <<"#modal">>
    /\ pages[3].url_pattern = NormalizeUrl(StartUrl)
    /\ post_promoted > 0
    /\ last_pass = NoPass
    /\ pending_items # <<>>
    /\ pc = "exploring"


\* the probes of a dismissal are the close selectors in their order, each
\* but the last one probed did not end the loop, and the escape key was
\* pressed exactly when no probe was visible and clicked
OrderlyDismissal(run) ==
    /\ Len(run.probes) \in 1..Len(CloseSelectors)
    /\ \A i \in 1..Len(run.probes) :
          /\ run.probes[i].selector = CloseSelectors[i]
          /\ i < Len(run.probes) => run.probes[i].outcome # "clicked"
    /\ (\A i \in 1..Len(run.probes) : run.probes[i].outcome # "clicked")
          => Len(run.probes) = Len(CloseSelectors)
    /\ run.escape # "none" <=>
          \A i \in 1..Len(run.probes) : run.probes[i].outcome # "clicked"
    /\ ~run.raised

\* C26: an activation after which a modal was detected attempts the
\* dismissal after the modal's elements were collected and within the same
\* iteration, before the next pop; an activation without a modal attempts
\* none; the dismissal probes the close selectors in their fixed order,
\* presses escape only if none was visible and clicked, and never raises, so
\* the loop is back at its head.
C26_DismissalAfterCollection ==
    /\ [][activated' = activated + 1 =>
            LET has_modal == logs'[Len(logs')].result
                n == Len(iter_trace')
            IN /\ has_modal <=> TracePos(iter_trace', "close_modal") > 0
               /\ has_modal =>
                    /\ TracePos(iter_trace', "collect") > 0
                    /\ TracePos(iter_trace', "collect") < TracePos(iter_trace', "close_modal")
                    /\ TracePos(iter_trace', "close_modal") = n
               /\ pc' = "exploring"]_vars
    /\ [][item' # item /\ item' # NoItem => iter_trace' = <<>>]_vars
    /\ [](fn_call.op = "close_modal" =>
            /\ OrderlyDismissal(fn_ret)
            /\ \A i \in 1..Len(fn_ret.probes) :
                  fn_ret.probes[i].outcome = fn_call.outcomes.probes[i])

\* a dismissal in which the second close button was visible but its click
\* raised, the fifth was clicked, and the escape key was not pressed
C26_WitnessCall ==
    /\ fn_call.op = "close_modal"
    /\ fn_call.outcomes.probes[2] = "raises"
    /\ fn_call.outcomes.probes[5] = "clicked"
    /\ Len(fn_ret.probes) = 5
    /\ fn_ret.escape = "none"

\* a modal was detected after an activation, collected, and dismissed
C26_Witness ==
    /\ activated = 1
    /\ logs[1].result
    /\ iter_trace = <<"click", "save_page", "save_action", "save_exploration_log",
                      "collect", "close_modal">>
    /\ pc = "exploring"


\* the rows of the Page table that an analysis of this site and url_pattern
\* would revisit
SamePage(tbl, site_id, pattern) ==
    {i \in 1..Len(tbl) : tbl[i].site_id = site_id /\ tbl[i].url_pattern = pattern}

\* C27: the analysis of a URL or modal that has no Page row yet appends one;
\* the analysis of a URL or modal that already has a Page row appends none
\* and instead adds one to that row's visit_count and stores the new
\* description in it.
C27_PageRowUpdatedOnRevisit ==
    [][(activated' = activated + 1 \/ (pc = "collecting" /\ pc' = "exploring")) =>
          LET has_modal == pc = "activating" /\ logs'[Len(logs')].result
              pattern == UrlPattern(NormalizeUrl(cur_url'), has_modal)
              site_id == SiteIdOf(sites, SiteDomain)
              seen == SamePage(pages, site_id, pattern)
          IN IF seen = {}
             THEN /\ Len(pages') = Len(pages) + 1
                  /\ pages'[Len(pages')].url_pattern = pattern
                  /\ pages'[Len(pages')].visit_count = 1
             ELSE /\ Len(pages') = Len(pages)
                  /\ \A i \in seen : pages'[i].visit_count = pages[i].visit_count + 1]_vars

\* an activation came back to the start page, and the Page table holds two
\* rows for it, each with visit_count 1
C27_Revisited ==
    /\ activated = 1
    /\ Len(pages) = 2
    /\ pages[1].url_pattern = pages[2].url_pattern
    /\ pages[1].site_id = pages[2].site_id
    /\ pages[1].visit_count = 1 /\ pages[2].visit_count = 1
    /\ pc = "exploring"


----------------------------------------------------------------------------
(* Properties of the task paths the agent records *)

\* C28: when step k of a planned execution signals completion and the store
\* takes the write, one TaskPath of the current site with success_count 1 is
\* appended whose action_sequence is the plan steps 1..k in order, without
\* the steps after k.
C28_PlanSoFarRecorded ==
    [][(a_pc = "plan" /\ result'.kind = "plan_done" /\ ~store_fail') =>
          /\ Len(task_paths') = Len(task_paths) + 1
          /\ task_paths'[Len(task_paths')].site_id = current_site
          /\ task_paths'[Len(task_paths')].success_count = 1
          /\ task_paths'[Len(task_paths')].action_sequence =
                SubSeq(Get(plan, "plan", <<>>), 1, step_idx)]_vars

\* the first step of a plan of two signalled completion, and the TaskPath
\* recorded holds both steps
C28_WholePlanRecorded ==
    /\ result = Result("plan_done", 1)
    /\ Len(Get(plan, "plan", <<>>)) = 2
    /\ Len(task_paths) = 1
    /\ Len(task_paths[1].action_sequence) = 2
    /\ task_paths[1].action_sequence = Get(plan, "plan", <<>>)


\* a text without a blank at either end and without two blanks in a row
SingleSpaced(s) ==
    /\ s # <<>> => (s[1] # " " /\ s[Len(s)] # " ")
    /\ \A i \in 1..(Len(s) - 1) : ~(s[i] = " " /\ s[i + 1] = " ")

----------------------------------------------------------------------------
(* Properties of the exploration log *)

\* C30: the ExplorationLog table only grows at its end: no step of an
\* exploration, of planning or of execution changes or removes a row it
\* holds; a step that adds a row is an activation of the running
\* exploration and the row carries that exploration's session_id, so every
\* row after those of earlier runs does; and the log table is not among the
\* tables the planner reads.
C30_LogAppendOnly ==
    /\ [][/\ Len(logs') >= Len(logs)
          /\ SubSeq(logs', 1, Len(logs)) = logs]_vars
    /\ [][logs' # logs =>
            /\ pc = "activating"
            /\ a_pc' = a_pc /\ task_paths' = task_paths
            /\ Len(logs') = Len(logs) + 1
            /\ logs'[Len(logs')].session_id = SessionId]_vars
    /\ [](\A i \in 1..Len(logs) :
            IF i <= Len(EarlierLogs)
            THEN logs[i] = EarlierLogs[i]
            ELSE logs[i].session_id = SessionId)
    /\ []("exploration_logs" \notin PlannerReads)

\* an exploration added two rows after the row of an earlier exploration
C30_Witness ==
    /\ Len(logs) = 3
    /\ logs[1].session_id = EarlierSessionId
    /\ logs[2].session_id = SessionId /\ logs[3].session_id = SessionId
    /\ pc = "exploring"

\* a planned task ran to its end on the store that holds the earlier log
C30_WitnessTask ==
    /\ result.kind = "plan_done"
    /\ Len(task_paths) = 1
    /\ logs = EarlierLogs


\* C31: save_exploration_log inserts or updates by id like save_page: with
\* the id unset it adds exactly one row; with the id set it changes at most
\* the row of that id and adds no row.
C31_LogInsertOrUpdateById ==
    [][fn_call'.op = "save_exploration_log" =>
          /\ InsertOrUpdateById(logs, logs', fn_call'.id, fn_ret'.sqlite)
          /\ InsertOrUpdateById(mysql_db.logs, mysql_db'.logs, fn_call'.id,
                                fn_ret'.mysql)]_vars

\* save_exploration_log always inserts: whatever the id of the log it is
\* called with, it adds exactly one row at the end of the table, keeps every
\* existing row as it was, and returns the log under the id of the new row.
C31_LogAlwaysInserted ==
    [][fn_call'.op = "save_exploration_log" =>
          /\ Len(logs') = Len(logs) + 1
          /\ RowsKept(logs, logs')
          /\ fn_ret'.sqlite = Len(logs')
          /\ Len(mysql_db'.logs) = Len(mysql_db.logs) + 1
          /\ RowsKept(mysql_db.logs, mysql_db'.logs)
          /\ fn_ret'.mysql = Len(mysql_db'.logs)]_vars

\* a log whose id is that of the first row was saved, and the table holds a
\* second row
C31_SavedTwice ==
    /\ fn_call.op = "save_exploration_log"
    /\ fn_call.id = 1
    /\ Len(logs) = 2 /\ Len(mysql_db.logs) = 2
    /\ fn_ret = Both(2, 2)


----------------------------------------------------------------------------
(* Properties of the Element table and of the references between tables *)

\* the elements of a model response that carry a tag id
Tagged(resp) == SelectSeq(resp, LAMBDA e : e.tag_id.kind # "none")

\* C32: every analysis pass appends one Element row for each element the
\* model reports with a tag id, in order, under the page just written,
\* whether or not the element is queued and whether or not the page already
\* has a row of that name; rows that existed are kept as they were.
C32_ElementsNeverDeduplicated ==
    [][(last_pass'.kind # "none"
          /\ ((pc = "collecting" /\ pc' = "exploring") \/ activated' = activated + 1)) =>
          LET tagged == Tagged(last_pass'.resp)
          IN /\ Len(elements') = Len(elements) + Len(tagged)
             /\ SubSeq(elements', 1, Len(elements)) = elements
             /\ \A k \in 1..Len(tagged) :
                   /\ elements'[Len(elements) + k].semantic_name = tagged[k].semantic_name
                   /\ elements'[Len(elements) + k].page_id = Len(pages')]_vars

\* a post-activation pass in which the model reported Reports twice, after
\* an initial pass that reported an untagged element: the post pass added
\* two rows of one name under one page and queued one item at most
C32_Witness ==
    /\ last_pass.kind = "post"
    /\ last_pass.resp = <<EReports, EReports>>
    /\ \E i \in 1..Len(first_resp) : first_resp[i] = EUntagged
    /\ Len(elements) >= 3
    /\ elements[Len(elements)].semantic_name = elements[Len(elements) - 1].semantic_name
    /\ elements[Len(elements)].page_id = elements[Len(elements) - 1].page_id
    /\ Len(ItemsOfPage(last_pass.page_id)) <= 1


\* C33: before an item is activated the browser goes to the item's source
\* URL exactly when the normalized current URL differs from the normalized
\* source URL (a difference in the query string alone is no difference), the
\* click comes right after, and a failed click leaves the browser on the
\* page reached this way.
C33_ReturnsToSourceIffDrifted ==
    [][Len(clicks') = Len(clicks) + 1 =>
          LET drifted == NormalizeUrl(cur_url) # NormalizeUrl(item.source_url)
              first == IF drifted THEN 2 ELSE 1
          IN /\ (TracePos(iter_trace', "goto") = 1) <=> drifted
             /\ \A i \in first..Len(iter_trace') : iter_trace'[i] # "goto"
             /\ Len(iter_trace') >= first
             /\ iter_trace'[first] \in {"click", "click_failed"}
             /\ (activated' = activated =>
                   cur_url' = IF drifted THEN item.source_url ELSE cur_url)]_vars

\* an item collected on the start page was clicked, without success, while
\* the browser was on the start page with a query string: no navigation
C33_Witness ==
    /\ post_promoted = 0
    /\ cur_url = Url("/", "t=1", "")
    /\ iter_trace = <<"click_failed">>
    /\ activated = 1
    /\ pc = "exploring"

\* an activation that began with the return to the source page
C33_Returned ==
    /\ iter_trace # <<>>
    /\ iter_trace[1] = "goto"
    /\ pc = "exploring"


----------------------------------------------------------------------------
(* Properties of the extraction of JSON from a model response *)

\* the first balanced {...} block of a response: from the first "{" to the
\* brace that closes it; <<>> when there is none
FirstBalanced(toks) ==
    LET opens == {i \in 1..Len(toks) : toks[i] = "{"}
        first == CHOOSE i \in opens : \A k \in opens : i <= k
        rest == SubSeq(toks, first, Len(toks))
        ends == {j \in 1..Len(rest) : DepthBefore(rest, j + 1) = 0}
        last == CHOOSE j \in ends : \A k \in ends : j <= k
    IN IF opens = {} THEN <<>>
       ELSE IF ends = {} THEN <<>>
       ELSE SubSeq(rest, 1, last)

\* C34: when the planner's model answers with prose, one well-formed JSON
\* object, and prose again, whatever braces the trailing prose holds,
\* plan_task returns the object of the first balanced {...} block; the
\* default is returned only when that block is absent or malformed.
C34_FirstBalancedBlockExtracted ==
    [][(a_pc = "planning" /\ plan_call.kind = "text") =>
          LET block == FirstBalanced(plan_call.toks)
              j == JsonLoads(block, plan_call.payload)
          IN IF block # <<>> /\ j.ok
             THEN plan' = j.value
             ELSE plan' = CannotPlan]_vars

\* the model's answer is an object followed by prose that holds a closing
\* brace: the pattern matches up to that brace
C34_TrailingBrace ==
    /\ a_pc = "planning"
    /\ plan_call.kind = "text"
    /\ plan_call.toks = <<"{", "}", "}">>
    /\ JsonLoads(FirstBalanced(plan_call.toks), plan_call.payload).ok
    /\ ~JsonLoads(RegexSearch(plan_call.toks), plan_call.payload).ok


----------------------------------------------------------------------------
(* Properties shared by the two collection passes *)

\* the locator the tagger gave to a tag id, written as a number or as a
\* numeric string; 0 when it gave none
LocatorOf(tag) ==
    IF tag.kind \in {"int", "str"} /\ tag.n \in MappedTags THEN tag.n ELSE 0

\* the Element rows the last collection pass wrote, in order
RowsOfLastPass ==
    LET n == Len(Tagged(last_pass.resp))
    IN SubSeq(elements, Len(elements) - n + 1, Len(elements))

\* C35: the initial and the post-activation pass resolve tag ids alike: in
\* either pass the Element row of a reported element carries the locator
\* the tagger gave to its tag id, whether the model wrote the id as a number
\* or as a numeric string.
C35_SameTagResolution ==
    last_pass.kind # "none" =>
        LET tagged == Tagged(last_pass.resp)
        IN \A k \in 1..Len(tagged) :
              RowsOfLastPass[k].css_selector_hint = LocatorOf(tagged[k].tag_id)

\* Edit, reported with the tag id "2", got its locator in the initial pass
\* and none in a post-activation pass
C35_StringTagUnresolved ==
    /\ last_pass.kind = "post"
    /\ first_resp = <<EEdit>>
    /\ elements[1].css_selector_hint = 2
    /\ last_pass.resp = <<EEdit>>
    /\ elements[Len(elements)].semantic_name = EEdit.semantic_name
    /\ elements[Len(elements)].css_selector_hint = 0


\* the ids of the rows of a table
Ids(tbl) == 1..Len(tbl)

\* C36: every Action row names as source and target existing Page rows of
\* its own site and as element an existing Element row of its source page;
\* every pending item names an existing Page row and an existing Element
\* row of that page.
C36_ReferentialIntegrity ==
    /\ \A i \in Ids(actions) :
          LET a == actions[i]
          IN /\ a.source_page_id \in Ids(pages)
             /\ a.target_page_id \in Ids(pages)
             /\ pages[a.source_page_id].site_id = a.site_id
             /\ pages[a.target_page_id].site_id = a.site_id
             /\ a.element_id \in Ids(elements)
             /\ elements[a.element_id].page_id = a.source_page_id
    /\ \A i \in 1..Len(pending_items) :
          LET it == pending_items[i]
          IN /\ it.source_page_id \in Ids(pages)
             /\ it.element_id \in Ids(elements)
             /\ elements[it.element_id].page_id = it.source_page_id

\* Action rows exist, one of them for an item collected after an activation,
\* and an item is pending
C36_Witness ==
    /\ \E i \in Ids(actions) : actions[i].source_page_id > 1
    /\ pending_items # <<>>


----------------------------------------------------------------------------
(* Properties of the completion signal *)

\* the commands the prompt asks the model for, each with its arguments
WellFormed(cmd) ==
    \/ cmd = <<"DONE">>
    \/ cmd = <<"PAUSE">>
    \/ cmd = <<"WAIT">>
    \/ Len(cmd) = 2 /\ cmd[1] = "WAIT" /\ cmd[2] \in DigitToks
    \/ Len(cmd) = 2 /\ cmd[1] = "CLICK" /\ cmd[2] \in TagToks
    \/ Len(cmd) = 3 /\ cmd[1] = "TYPE" /\ cmd[2] \in TagToks /\ cmd[3] \in QuotedToks
    \/ cmd = <<"SCROLL", "UP">>
    \/ Len(cmd) = 2 /\ cmd[1] = "GOTO" /\ cmd[2] \in QuotedToks

\* C37: on a well-formed command execute signals done exactly when the
\* command is DONE; CLICK, TYPE, SCROLL, GOTO, WAIT and PAUSE return
\* done=false whatever their arguments, a typed text or a URL that holds
\* the word done included.
C37_DoneIffDoneCommand ==
    (fn_call.op = "execute" /\ WellFormed(fn_call.cmd)) =>
        (fn_ret.done <=> fn_call.cmd = <<"DONE">>)

\* TYPE [1] 'done' was executed: nothing was typed and done was signalled
C37_TypedDoneEndsTask ==
    /\ fn_call.op = "execute"
    /\ fn_call.cmd = <<"TYPE", "[1]", "'DONE'">>
    /\ fn_ret.done
    /\ fn_ret.browser = "none"


----------------------------------------------------------------------------
(* Properties of the results of a task *)

\* C38: a live run returns 'max steps reached' only after exactly max_steps
\* steps none of which signalled DONE; a run stopped after fewer steps does
\* not return it.
C38_MaxStepsOnlyAtCap ==
    [][(a_pc = "live" /\ result'.kind = "max_steps" /\ a_pc' = "idle") =>
          /\ step = MaxSteps
          /\ Len(action_history) = MaxSteps
          /\ \A i \in 1..Len(action_history) :
                ~Execute(action_history[i].action).done]_vars

\* a live run was stopped after its first steps and returned 'max steps
\* reached'
C38_StoppedRunReportsCap ==
    /\ a_pc = "idle"
    /\ result.kind = "max_steps"
    /\ life = "stopped"
    /\ ~running
    /\ step \in 1..(MaxSteps - 1)
    /\ Len(action_history) = step


\* a step of a task signalled DONE and the task returned its completion
CompletedStep ==
    /\ a_pc \in {"plan", "live"}
    /\ a_pc' = "idle"
    /\ result'.kind \in {"plan_done", "live_done"}

\* C39: a TaskPath is written only by the step that signals DONE, and then
\* as one new row with success_count 1 and fail_count 0 behind the rows the
\* table held, which stay as they were; with the store open, a site set and
\* the write not failing, the completion does write it.  A plan whose steps
\* all execute without DONE ends with 'plan executed N steps', N the length
\* of the plan, writes nothing and does not go on to live execution.
C39_TaskPathOnlyOnDone ==
    /\ [][task_paths' # task_paths =>
            /\ CompletedStep
            /\ Len(task_paths') = Len(task_paths) + 1
            /\ SubSeq(task_paths', 1, Len(task_paths)) = task_paths
            /\ task_paths'[Len(task_paths')].success_count = 1
            /\ task_paths'[Len(task_paths')].fail_count = 0]_vars
    /\ [][(CompletedStep /\ use_memory /\ db_open /\ current_site # 0 /\ ~store_fail') =>
            Len(task_paths') = Len(task_paths) + 1]_vars
    /\ [][(a_pc = "plan" /\ Len(executed_plan) = Len(plan.plan)
              /\ step_idx > Len(plan.plan) /\ a_pc' # a_pc) =>
            /\ result' = Result("plan_finished", Len(plan.plan))
            /\ a_pc' = "idle"
            /\ task_paths' = task_paths
            /\ step = 0 /\ action_history = <<>>]_vars

\* a task completed on a store that held a task path: a second row stands
\* behind the first, which is as it was
C39_Witness ==
    /\ result.kind \in {"plan_done", "live_done"}
    /\ Len(task_paths) = 2
    /\ task_paths[1] = EarlierPaths[1]
    /\ task_paths[2].success_count = 1

\* a plan of two steps was executed to its end without DONE
C39_PlanRanOut ==
    /\ result = Result("plan_finished", 2)
    /\ executed_plan = <<1, 2>>
    /\ task_paths = EarlierPaths
    /\ a_pc = "idle"


\* C40: with memory disabled or no current site, execute_task asks no plan
\* of the planner and goes straight to live execution; while memory is
\* disabled the store is not opened, no table changes, no site becomes
\* current and no TaskPath is written, also when a step signals DONE.
C40_NoMemoryNoPlannerNoStore ==
    /\ [][(a_pc = "select" /\ a_pc' # a_pc /\ (~use_memory \/ current_site = 0)) =>
            /\ a_pc' = "live"
            /\ plan_call' = NoCall
            /\ plan' = NoPlan
            /\ sel'.mode = "live"]_vars
    /\ [][~use_memory' =>
            /\ ~db_open' /\ ~planner_set'
            /\ task_paths' = task_paths
            /\ <<sites, pages, elements, actions, logs>>' = <<sites, pages, elements, actions, logs>>
            /\ mysql_db' = mysql_db
            /\ current_site' = 0
            /\ ~store_fail']_vars

\* a live task completed with DONE while memory was disabled
C40_Witness ==
    /\ ~use_memory
    /\ result.kind = "live_done"
    /\ sel.mode = "live"
    /\ task_paths = <<>>
    /\ sites = <<>>
    /\ a_pc = "idle"

\* a task went live, memory enabled, because no site was current
C40_NoSiteLive ==
    /\ use_memory /\ planner_set
    /\ current_site = 0
    /\ a_pc = "live"
    /\ plan = NoPlan

====
